---- MODULE Spec2Model ----
(***************************************************************************)
(* Just The Fields (app.js): record/template resolution and the viewer.    *)
(*                                                                         *)
(* JavaScript strings are sequences of one-character strings, so that the  *)
(* tokenizer, trim() and String() work on characters.  A JSON value is a   *)
(* tagged record; undefined and a thrown TypeError are values of their own *)
(* so that "absent" and "raised" can be told apart from every JSON value.  *)
(***************************************************************************)
EXTENDS Integers, Sequences, FiniteSets, TLC

VARIABLES
    pathObj, pathStr, pathRes, pathDone,   \* one evaluation of getValueAtPath
    templates, activeTemplateId,           \* state.templates, state.activeTemplateId
    tplRecord, tplOut,                     \* one record handed to the template engine
    files, activeFileId,                   \* state.files, state.activeFileId
    selectedRecordIndexByFileId, viewModeByFileId, datasetUiByFileId,
    showRaw, searchQuery, includeCollapsedInSearch,
    els,                                   \* the DOM controls the listeners read
    view,                                  \* what renderViewer wrote last
    addFilesCalls,                         \* addFiles calls suspended at an await
    templateUploads,                       \* addTemplateFiles calls suspended at an await
    consoleWarnings,                       \* the files console.warn has reported
    events,                                \* how many events the page has handled
    fnIn, fnOut                            \* one call of a pure function and its result

pathVars == <<pathObj, pathStr, pathRes, pathDone>>
registryVars == <<templates, activeTemplateId>>
tplVars == <<tplRecord, tplOut>>

viewerVars == <<files, activeFileId, selectedRecordIndexByFileId, viewModeByFileId,
                datasetUiByFileId, showRaw, searchQuery, includeCollapsedInSearch,
                els, view, addFilesCalls, templateUploads, consoleWarnings, events>>
fnVars == <<fnIn, fnOut>>

vars == <<pathObj, pathStr, pathRes, pathDone, templates, activeTemplateId,
          tplRecord, tplOut, files, activeFileId, selectedRecordIndexByFileId,
          viewModeByFileId, datasetUiByFileId, showRaw, searchQuery,
          includeCollapsedInSearch, els, view, addFilesCalls, templateUploads,
          consoleWarnings, events, fnIn, fnOut>>

----------------------------------------------------------------------------
(* JSON values *)

JUndef == [t |-> "undefined"]
JNull == [t |-> "null"]
JThrow == [t |-> "TypeError"]
JBool(b) == [t |-> "bool", b |-> b]
JNum(n) == [t |-> "num", n |-> n]
JStr(s) == [t |-> "str", s |-> s]
JArr(a) == [t |-> "arr", a |-> a]
JObj(o) == [t |-> "obj", o |-> o]
KV(k, v) == [k |-> k, v |-> v]

\* cur == null (null or undefined)
IsNullish(v) == v.t \in {"null", "undefined"}
\* typeof v === 'object' for a non-null value
TypeofObject(v) == v.t \in {"obj", "arr"}
\* x && typeof x === 'object'
IsObjectLike(v) == v.t \in {"obj", "arr"}
IsMapping(v) == v.t = "obj"

Digits == {"0", "1", "2", "3", "4", "5", "6", "7", "8", "9"}
Separators == {".", "[", "]"}

DigitVal(c) ==
    CASE c = "0" -> 0 [] c = "1" -> 1 [] c = "2" -> 2 [] c = "3" -> 3
      [] c = "4" -> 4 [] c = "5" -> 5 [] c = "6" -> 6 [] c = "7" -> 7
      [] c = "8" -> 8 [] c = "9" -> 9

RECURSIVE ToNumber(_)
\* Number("012") for a string of decimal digits
ToNumber(ds) ==
    IF ds = <<>> THEN 0
    ELSE ToNumber(SubSeq(ds, 1, Len(ds) - 1)) * 10 + DigitVal(ds[Len(ds)])

\* a property name that is an array index: "0", "1", "10", never "01"
IsCanonicalIndex(s) ==
    /\ Len(s) >= 1
    /\ \A i \in 1..Len(s) : s[i] \in Digits
    /\ (Len(s) > 1 => s[1] # "0")

sLength == <<"l", "e", "n", "g", "t", "h">>
sA == <<"a">>
sB == <<"b">>
sC == <<"c">>
sW == <<"w">>
sZero == <<"0">>
sItems == <<"I", "t", "e", "m", "s">>
sTitle == <<"T", "i", "t", "l", "e">>
sWindowDetail == <<"W", "i", "n", "d", "o", "w", " ", "d", "e", "t", "a", "i", "l">>
sNotAnArray == <<"n", "o", "t", "-", "a", "n", "-", "a", "r", "r", "a", "y">>

HasOwn(o, k) == \E i \in 1..Len(o.o) : o.o[i].k = k

OwnGet(o, k) ==
    IF HasOwn(o, k)
    THEN o.o[CHOOSE i \in 1..Len(o.o) : o.o[i].k = k].v
    ELSE JUndef

\* arr[n] for a number n
ElemAt(arr, n) == IF n + 1 \in 1..Len(arr.a) THEN arr.a[n + 1] ELSE JUndef

\* cur[name]: property read with a string key
PropGet(cur, name) ==
    CASE IsNullish(cur) -> JThrow
      [] cur.t = "obj" -> OwnGet(cur, name)
      [] cur.t = "arr" ->
            IF name = sLength THEN JNum(Len(cur.a))
            ELSE IF IsCanonicalIndex(name) THEN ElemAt(cur, ToNumber(name))
            ELSE JUndef
      [] cur.t = "str" ->
            IF name = sLength THEN JNum(Len(cur.s))
            ELSE IF IsCanonicalIndex(name) /\ ToNumber(name) < Len(cur.s)
                 THEN JStr(<<cur.s[ToNumber(name) + 1]>>)
            ELSE JUndef
      [] OTHER -> JUndef

----------------------------------------------------------------------------
(* getValueAtPath *)

RECURSIVE NameEnd(_, _)
NameEnd(p, i) ==
    IF i > Len(p) \/ p[i] \in Separators THEN i ELSE NameEnd(p, i + 1)

RECURSIVE DigitsEnd(_, _)
DigitsEnd(p, i) ==
    IF i > Len(p) \/ p[i] \notin Digits THEN i ELSE DigitsEnd(p, i + 1)

NameTok(s) == [kind |-> "name", s |-> s]
IndexTok(n) == [kind |-> "index", n |-> n]

RECURSIVE Tokenize(_, _)
\* the exec loop over /[^.[\]]+|\[(\d+)\]/g starting at position i
Tokenize(p, i) ==
    IF i > Len(p) THEN <<>>
    ELSE IF p[i] \notin Separators
    THEN LET j == NameEnd(p, i)
         IN  <<NameTok(SubSeq(p, i, j - 1))>> \o Tokenize(p, j)
    ELSE IF p[i] = "["
    THEN LET j == DigitsEnd(p, i + 1)
         IN  IF j > i + 1 /\ j <= Len(p) /\ p[j] = "]"
             THEN <<IndexTok(ToNumber(SubSeq(p, i + 1, j - 1)))>>
                      \o Tokenize(p, j + 1)
             ELSE Tokenize(p, i + 1)
    ELSE Tokenize(p, i + 1)

Step(cur, tok, out, stop) == [cur |-> cur, tok |-> tok, out |-> out, stop |-> stop]

RECURSIVE WalkSteps(_, _)
RECURSIVE WalkOn(_, _, _, _)

\* cur = cur[...] has read nxt: the iteration, and the loop goes on
WalkOn(cur, tok, nxt, rest) ==
    IF nxt = JThrow THEN <<Step(cur, tok, JThrow, TRUE)>>
    ELSE <<Step(cur, tok, nxt, FALSE)>> \o WalkSteps(nxt, rest)

\* the for loop over the tokens: one entry per iteration entered
WalkSteps(cur, toks) ==
    IF toks = <<>> THEN <<>>
    ELSE IF IsNullish(cur) THEN <<Step(cur, Head(toks), JUndef, TRUE)>>
    ELSE IF Head(toks).kind = "index"
    THEN IF cur.t # "arr" THEN <<Step(cur, Head(toks), JUndef, TRUE)>>
         ELSE WalkOn(cur, Head(toks), ElemAt(cur, Head(toks).n), Tail(toks))
    ELSE IF ~TypeofObject(cur) THEN <<Step(cur, Head(toks), JUndef, TRUE)>>
         ELSE WalkOn(cur, Head(toks), PropGet(cur, Head(toks).s), Tail(toks))

\* what the walk returns: cur after the last iteration
WalkResult(obj, steps) ==
    [steps |-> steps,
     value |-> IF steps = <<>> THEN obj ELSE steps[Len(steps)].out]

\* the walk of getValueAtPath(obj, path): its iterations and what it returns
PathWalk(obj, path) ==
    IF path = <<>> THEN [steps |-> <<>>, value |-> JUndef]
    ELSE IF IsNullish(obj) THEN [steps |-> <<>>, value |-> JUndef]
    ELSE WalkResult(obj, WalkSteps(obj, Tokenize(path, 1)))

getValueAtPath(obj, path) == PathWalk(obj, path).value

----------------------------------------------------------------------------
(* String(), trim(), toLowerCase(), truthiness *)

Whitespace == {" ", "\t", "\n", "\r"}

RECURSIVE TrimLeft(_)
TrimLeft(s) ==
    IF s # <<>> /\ Head(s) \in Whitespace THEN TrimLeft(Tail(s)) ELSE s

RECURSIVE TrimRight(_)
TrimRight(s) ==
    IF s # <<>> /\ s[Len(s)] \in Whitespace
    THEN TrimRight(SubSeq(s, 1, Len(s) - 1))
    ELSE s

\* s.trim()
Trim(s) == TrimRight(TrimLeft(s))

UpperLetters == <<"A", "B", "C", "D", "E", "F", "G", "H", "I", "J", "K", "L", "M",
                  "N", "O", "P", "Q", "R", "S", "T", "U", "V", "W", "X", "Y", "Z">>
LowerLetters == <<"a", "b", "c", "d", "e", "f", "g", "h", "i", "j", "k", "l", "m",
                  "n", "o", "p", "q", "r", "s", "t", "u", "v", "w", "x", "y", "z">>

LowerChar(c) ==
    IF \E i \in 1..Len(UpperLetters) : UpperLetters[i] = c
    THEN LowerLetters[CHOOSE i \in 1..Len(UpperLetters) : UpperLetters[i] = c]
    ELSE c

\* s.toLowerCase()
ToLowerCase(s) == [i \in 1..Len(s) |-> LowerChar(s[i])]

DigitChars == <<"0", "1", "2", "3", "4", "5", "6", "7", "8", "9">>

RECURSIVE NatToStr(_)
NatToStr(n) ==
    IF n < 10 THEN <<DigitChars[n + 1]>>
    ELSE NatToStr(n \div 10) \o <<DigitChars[(n % 10) + 1]>>

\* String(n) of an integer
IntToStr(n) == IF n >= 0 THEN NatToStr(n) ELSE <<"-">> \o NatToStr(-n)

sNull == <<"n", "u", "l", "l">>
sUndefined == <<"u", "n", "d", "e", "f", "i", "n", "e", "d">>
sTrue == <<"t", "r", "u", "e">>
sFalse == <<"f", "a", "l", "s", "e">>
sObjectObject == <<"[", "o", "b", "j", "e", "c", "t", " ", "O", "b", "j", "e", "c", "t", "]">>

RECURSIVE JsString(_)
RECURSIVE JoinWith(_, _)

\* strs joined with the separator sep
JoinWith(strs, sep) ==
    IF strs = <<>> THEN <<>>
    ELSE IF Len(strs) = 1 THEN strs[1]
    ELSE strs[1] \o sep \o JoinWith(Tail(strs), sep)

\* String(v)
JsString(v) ==
    CASE v.t = "str" -> v.s
      [] v.t = "num" -> IF v.n < 0 THEN <<"-">> \o NatToStr(0 - v.n) ELSE NatToStr(v.n)
      [] v.t = "bool" -> IF v.b THEN sTrue ELSE sFalse
      [] v.t = "null" -> sNull
      [] v.t = "undefined" -> sUndefined
      [] v.t = "obj" -> sObjectObject
      [] v.t = "arr" ->
            JoinWith([i \in 1..Len(v.a) |->
                         IF IsNullish(v.a[i]) THEN <<>> ELSE JsString(v.a[i])],
                     <<",">>)

\* Boolean(v)
Truthy(v) ==
    CASE v.t \in {"null", "undefined"} -> FALSE
      [] v.t = "bool" -> v.b
      [] v.t = "num" -> v.n # 0
      [] v.t = "str" -> v.s # <<>>
      [] OTHER -> TRUE

\* a || b
OrElse(a, b) == IF Truthy(a) THEN a ELSE b

RECURSIVE SelectSeq2(_, _)
\* seq.filter(i => keep[i])
SelectSeq2(seq, keep) ==
    IF seq = <<>> THEN <<>>
    ELSE (IF Head(keep) THEN <<Head(seq)>> ELSE <<>>)
             \o SelectSeq2(Tail(seq), Tail(keep))

\* Object.prototype.hasOwnProperty.call(record, k) for a string k
HasOwnProperty(record, k) ==
    CASE record.t = "obj" -> HasOwn(record, k)
      [] record.t = "arr" ->
            \/ k = sLength
            \/ IsCanonicalIndex(k) /\ ToNumber(k) < Len(record.a)
      [] OTHER -> FALSE

----------------------------------------------------------------------------
(* kvlist shaping: the definition of renderKvListValue that is in effect   *)
(* (the last of the four function declarations of that name)               *)

sName == <<"N", "a", "m", "e">>
sNameLower == <<"n", "a", "m", "e">>
sTextValue == <<"T", "e", "x", "t", "V", "a", "l", "u", "e">>
sPredefinedValues == <<"P", "r", "e", "d", "e", "f", "i", "n", "e", "d",
                       "V", "a", "l", "u", "e", "s">>
DefaultValuePaths ==
    << sTextValue,
       sPredefinedValues \o <<".">> \o sName,
       sPredefinedValues \o <<"[", "0", "]", ".">> \o sName >>
DefaultMaxItems == 6

\* x && typeof x === 'object' ? x.Name ?? x.name : x
Coalesce(a, b) == IF ~IsNullish(a) THEN a ELSE b

KvName(x) ==
    IF IsObjectLike(x)
    THEN Coalesce(PropGet(x, sName), PropGet(x, sNameLower))
    ELSE x

NotNullish(v) == ~IsNullish(v)
NotEmpty(str) == str # <<>>
TrimmedStrings(vs) == [i \in 1..Len(vs) |-> Trim(JsString(vs[i]))]

\* the names joined out of an array value
KvNames(v) ==
    SelectSeq(TrimmedStrings(SelectSeq([i \in 1..Len(v.a) |-> KvName(v.a[i])],
                                       NotNullish)),
              NotEmpty)

RECURSIVE KvFirstValue(_, _)
RECURSIVE KvPickValue(_, _, _)

\* an array value whose names are names
KvJoinedOrNext(item, rest, names) ==
    IF names # <<>> THEN JStr(JoinWith(names, <<",", " ">>))
    ELSE KvFirstValue(item, rest)

\* one iteration of the loop over valuePaths, v the value at the path
KvPickValue(item, rest, v) ==
    IF v.t = "arr" THEN KvJoinedOrNext(item, rest, KvNames(v))
    ELSE IF ~IsNullish(v) /\ Trim(JsString(v)) # <<>> THEN v
    ELSE KvFirstValue(item, rest)

\* the loop over valuePaths: the first "real" value, or null
KvFirstValue(item, valuePaths) ==
    IF valuePaths = <<>> THEN JNull
    ELSE KvPickValue(item, Tail(valuePaths),
                     getValueAtPath(item, Head(valuePaths)))

OrDefault(str, default) == IF str = <<>> THEN default ELSE str

KvItemKeyPath(cfg) ==
    OrDefault(Trim(JsString(OrElse(cfg.itemKeyPath, JStr(sName)))), sName)

KvValuePaths(cfg) ==
    IF cfg.valuePaths.t = "arr" /\ Len(cfg.valuePaths.a) > 0
    THEN SelectSeq([i \in 1..Len(cfg.valuePaths.a) |->
                      Trim(JsString(OrElse(cfg.valuePaths.a[i], JStr(<<>>))))],
                   NotEmpty)
    ELSE DefaultValuePaths

KvMaxItems(cfg) ==
    IF cfg.maxItems.t = "num"
    THEN IF cfg.maxItems.n > 1 THEN cfg.maxItems.n ELSE 1
    ELSE DefaultMaxItems

RECURSIVE KvRows(_, _, _, _)
RECURSIVE KvPushed(_, _, _, _)
RECURSIVE KvItem(_, _, _, _, _, _)

\* key == null ? '' : String(key).trim()
KvKey(kRaw) == IF IsNullish(kRaw) THEN <<>> ELSE Trim(JsString(kRaw))

\* after rows.push(...): the loop breaks at maxItems rows
KvPushed(items, cfg, i, rows2) ==
    IF Len(rows2) >= KvMaxItems(cfg) THEN rows2
    ELSE KvRows(items, cfg, i + 1, rows2)

\* one item with its key and its first real value
KvItem(items, cfg, i, rows, key, val) ==
    IF key = <<>> THEN KvRows(items, cfg, i + 1, rows)
    ELSE IF IsNullish(val) \/ Trim(JsString(val)) = <<>>
    THEN KvRows(items, cfg, i + 1, rows)
    ELSE KvPushed(items, cfg, i, Append(rows, [k |-> key, v |-> JsString(val)]))

\* the loop over the items; rows is what has been pushed so far
KvRows(items, cfg, i, rows) ==
    IF i > Len(items) THEN rows
    ELSE IF ~IsMapping(items[i]) THEN KvRows(items, cfg, i + 1, rows)
    ELSE KvItem(items, cfg, i, rows,
                KvKey(getValueAtPath(items[i], KvItemKeyPath(cfg))),
                KvFirstValue(items[i], KvValuePaths(cfg)))

\* the rows of the list; no rows is the empty string ''
renderKvListValue(arrValue, cfg) ==
    IF arrValue.t # "arr" \/ Len(arrValue.a) = 0 THEN <<>>
    ELSE KvRows(arrValue.a, cfg, 1, <<>>)

----------------------------------------------------------------------------
(* Template engine.  A parsed template is a record with the properties of  *)
(* the template file; a property the file does not set is undefined.       *)

sText == <<"t", "e", "x", "t">>
sBadge == <<"b", "a", "d", "g", "e">>
sDate == <<"d", "a", "t", "e">>
sLink == <<"l", "i", "n", "k">>
sMultiline == <<"m", "u", "l", "t", "i", "l", "i", "n", "e">>
sKvlist == <<"k", "v", "l", "i", "s", "t">>
sJson == <<"j", "s", "o", "n">>
sSelectedTemplate == <<"S", "e", "l", "e", "c", "t", "e", "d", " ",
                       "t", "e", "m", "p", "l", "a", "t", "e">>

TEMPLATE_AUTO_ID == "__auto__"
\* state.activeTemplateId = null
NoTemplateId == "null"

\* String(f.format || 'text').trim().toLowerCase()
FieldFormat(f) == ToLowerCase(Trim(JsString(OrElse(f.format, JStr(sText)))))

\* String(f.path || '').trim()
FieldPath(f) == Trim(JsString(OrElse(f.path, JStr(<<>>))))

FieldLabel(f) == Trim(JsString(OrElse(f.label, JStr(<<>>))))

\* renderValue(value, opts) === ''
RenderValueEmpty(value) == value.t = "str" /\ value.s = <<>>

NoRow == [shown |-> FALSE]
Row(label, format) == [shown |-> TRUE, label |-> label, format |-> format]

\* '' (NoRow) or the label/value row of one template field
\* the row of a field whose path and label are set, value the value at the path
FieldRow(field, label, format, value) ==
    IF value = JUndef THEN NoRow
    ELSE IF format = sBadge
    THEN IF ~IsNullish(value) /\ Trim(JsString(value)) = <<>> THEN NoRow
         ELSE Row(label, format)
    ELSE IF format = sDate
    THEN IF ~Truthy(value) THEN NoRow ELSE Row(label, format)
    ELSE IF format \in {sLink, sMultiline}
    THEN IF value.t # "str" \/ RenderValueEmpty(value) THEN NoRow
         ELSE Row(label, format)
    ELSE IF format = sKvlist
    THEN IF renderKvListValue(value, field) = <<>> THEN NoRow
         ELSE Row(label, format)
    ELSE IF RenderValueEmpty(value) THEN NoRow
    ELSE Row(label, format)

FieldAt(record, field, path, label) ==
    IF path = <<>> \/ label = <<>> THEN NoRow
    ELSE FieldRow(field, label, FieldFormat(field), getValueAtPath(record, path))

\* '' (NoRow) or the label/value row of one template field
renderTemplateField(record, field) ==
    FieldAt(record, field, FieldPath(field), FieldLabel(field))

\* a field with a path, v the value at the path
FieldValueHits(f, v) ==
    IF v = JUndef THEN FALSE
    ELSE IF FieldFormat(f) = sKvlist THEN renderKvListValue(v, f) # <<>>
    ELSE TRUE

FieldPathHits(record, f, p) ==
    IF p = <<>> THEN FALSE ELSE FieldValueHits(f, getValueAtPath(record, p))

\* one field of countTemplateFieldHits: does it count as a hit
FieldHits(record, f) == FieldPathHits(record, f, FieldPath(f))

AllFields(template) ==
    LET RECURSIVE Cat(_)
        Cat(i) == IF i > Len(template.layout) THEN <<>>
                  ELSE template.layout[i].fields \o Cat(i + 1)
    IN  Cat(1)

countTemplateFieldHits(template, record) ==
    IF ~IsObjectLike(template) THEN 0
    ELSE IF ~IsObjectLike(record) THEN 0
    ELSE Cardinality({i \in 1..Len(AllFields(template)) :
                         FieldHits(record, AllFields(template)[i])})

\* the loop over m.requiredKeys
RequiredKeysPresent(m, record) ==
    IF m.requiredKeys.t = "arr" /\ Len(m.requiredKeys.a) > 0
    THEN \A i \in 1..Len(m.requiredKeys.a) :
            LET k == m.requiredKeys.a[i]
            IN  \/ k.t # "str"
                \/ Trim(k.s) = <<>>
                \/ HasOwnProperty(record, k.s)
    ELSE TRUE

\* the typeField/typeValue test without trimming either side
TypeFieldAgrees_Untrimmed(m, record) ==
    IF m.typeField.t = "str" /\ Trim(m.typeField.s) # <<>> /\ ~IsNullish(m.typeValue)
    THEN LET actual == PropGet(record, Trim(m.typeField.s))
         IN  /\ ~IsNullish(actual)
             /\ JsString(actual) = JsString(m.typeValue)
    ELSE TRUE

\* the typeField/typeValue test
TypeFieldAgrees(m, record) ==
    IF m.typeField.t = "str" /\ Trim(m.typeField.s) # <<>> /\ ~IsNullish(m.typeValue)
    THEN LET field == Trim(m.typeField.s)
             expected == Trim(JsString(m.typeValue))
             actual == PropGet(record, field)
         IN  /\ ~IsNullish(actual)
             /\ Trim(JsString(actual)) = expected
    ELSE TRUE

\* a template without match block matches nothing
templateMatchesRecord_NeedsMatchBlock(tpl, record) ==
    IF ~IsObjectLike(tpl) THEN FALSE
    ELSE IF ~IsObjectLike(record) THEN FALSE
    ELSE IF ~IsObjectLike(tpl.match) THEN FALSE
    ELSE RequiredKeysPresent(tpl.match, record) /\ TypeFieldAgrees(tpl.match, record)

templateMatchesRecord(tpl, record) ==
    IF ~IsObjectLike(tpl) THEN FALSE
    ELSE IF ~IsObjectLike(record) THEN FALSE
    ELSE IF ~IsObjectLike(tpl.match) THEN TRUE
    ELSE RequiredKeysPresent(tpl.match, record) /\ TypeFieldAgrees(tpl.match, record)

GenericView(record) == [kind |-> "generic", record |-> record]
IssueView(record) == [kind |-> "issue", record |-> record]

\* the hint card: template name, explanation, the full record collapsed
DiagnosticCard(template, record) ==
    [kind |-> "diagnostic",
     title |-> "No fields from this template were found",
     template |-> IF Trim(template.templateName) # <<>>
                  THEN Trim(template.templateName) ELSE sSelectedTemplate,
     record |-> record,
     recordCollapsed |-> TRUE]

\* one collapsible card per section, holding the rows that are not ''
IsShown(row) == row.shown

\* the rows of one section that are not ''
SectionRows(record, fields) ==
    SelectSeq([j \in 1..Len(fields) |-> renderTemplateField(record, fields[j])],
              IsShown)

SectionCards(template, record) ==
    [i \in 1..Len(template.layout) |->
        [title |-> template.layout[i].section,
         open |-> (i = 1),
         rows |-> SectionRows(record, template.layout[i].fields)]]

\* the sections are emitted even when no field was found
renderTemplateRecordView_NoHint(template, record) ==
    IF ~IsObjectLike(template) THEN GenericView(record)
    ELSE [kind |-> "sections", sections |-> SectionCards(template, record)]

renderTemplateRecordView(template, record) ==
    IF ~IsObjectLike(template) THEN GenericView(record)
    ELSE IF countTemplateFieldHits(template, record) = 0
    THEN DiagnosticCard(template, record)
    ELSE [kind |-> "sections", sections |-> SectionCards(template, record)]

\* activeTemplate is a parsed template or null
renderRecordView(recordType, record, activeTemplate) ==
    IF activeTemplate # JNull THEN renderTemplateRecordView(activeTemplate, record)
    ELSE IF recordType = "Issue" THEN IssueView(record)
    ELSE GenericView(record)

----------------------------------------------------------------------------
(* Template files and the registry *)

sType == <<"t", "y", "p", "e">>
sIssue == <<"I", "s", "s", "u", "e">>
sIssuePadded == <<" ", "I", "s", "s", "u", "e", " ">>
sBlank == <<" ">>
sZZ == <<"z", "z">>
sLabel == <<"L">>
sSection == <<"S">>

\* how many times the template "manyKeys" repeats its required key
ManyKeys == 90

Fld(path, format) ==
    [path |-> JStr(path), label |-> JStr(sLabel), format |-> format,
     itemKeyPath |-> JUndef, valuePaths |-> JUndef, maxItems |-> JUndef]

Match(requiredKeys, typeField, typeValue) ==
    [t |-> "obj", requiredKeys |-> requiredKeys, typeField |-> typeField,
     typeValue |-> typeValue]

Tpl(name, match, fields) ==
    [t |-> "obj", templateName |-> name, match |-> match,
     layout |-> <<[section |-> sSection, fields |-> fields]>>]

Keys(ks) == JArr([i \in 1..Len(ks) |-> JStr(ks[i])])

TemplateSources ==
    {"plain", "emptyMatch", "reqA", "reqABC", "hits3", "type", "typeNull",
     "oddKeys", "manyKeys", "nohit", "kv", "arr", "twoSections"}

\* the parsed content of each well-shaped template file, as the engine reads it
TemplateOf(src) ==
    CASE src = "plain" ->
            Tpl(<<"p">>, JUndef, <<Fld(sA, JUndef)>>)
      [] src = "emptyMatch" ->
            Tpl(<<"e">>, Match(JUndef, JUndef, JUndef),
                <<Fld(sA, JUndef), Fld(sB, JUndef)>>)
      [] src = "reqA" ->
            Tpl(<<"r">>, Match(Keys(<<sA>>), JUndef, JUndef), <<Fld(sA, JUndef)>>)
      [] src = "reqABC" ->
            Tpl(<<"r", "3">>, Match(Keys(<<sA, sB, sC>>), JUndef, JUndef),
                <<Fld(sA, JUndef)>>)
      [] src = "hits3" ->
            Tpl(<<"h">>, Match(Keys(<<sA>>), JUndef, JUndef),
                <<Fld(sA, JUndef), Fld(sB, JUndef), Fld(sC, JUndef)>>)
      [] src = "type" ->
            Tpl(<<"t">>, Match(JUndef, JStr(<<" ">> \o sType), JStr(sIssue)),
                <<Fld(sA, JUndef)>>)
      [] src = "typeNull" ->
            Tpl(<<"t", "n">>, Match(JArr(<<>>), JStr(sType), JStr(sNull)),
                <<Fld(sA, JUndef)>>)
      [] src = "oddKeys" ->
            Tpl(<<"o">>, Match(JArr(<<JStr(sBlank), JNum(5), JStr(<<>>), JStr(sA)>>),
                               JStr(sBlank), JStr(sIssue)),
                <<Fld(sA, JUndef)>>)
      [] src = "manyKeys" ->
            Tpl(<<"m">>, Match(Keys([i \in 1..ManyKeys |-> sA]), JStr(sType), JNull),
                <<Fld(sA, JUndef)>>)
      [] src = "nohit" ->
            Tpl(<<"n">>, JNull, <<Fld(sZZ, JUndef)>>)
      [] src = "kv" ->
            Tpl(<<"k">>, JUndef, <<Fld(sB, JStr(<<" ", "K", "v", "L", "i", "s", "t">>))>>)
      [] src = "arr" ->
            Tpl(<<"a">>, JUndef, <<Fld(<<"[", "0", "]">>, JUndef)>>)
      [] src = "badPath" ->
            Tpl(<<"b">>, JUndef, <<Fld(<<"a", "[">>, JUndef)>>)
      [] src = "twoSections" ->
            [t |-> "obj", templateName |-> <<"2">>, match |-> JUndef,
             layout |-> << [section |-> sSection, fields |-> <<Fld(sZZ, JUndef)>>],
                           [section |-> sSection, fields |-> <<Fld(sB, JStr(sLink)),
                                                               Fld(sC, JStr(sBadge))>>] >>]

TplIds == <<"tpl_1", "tpl_2", "tpl_3", "tpl_4", "tpl_5", "tpl_6">>

Entry(id, src) == [id |-> id, src |-> src]

\* entry.template
EntryTemplate(entry) == TemplateOf(entry.src)

\* tpls.find((t) => t.id === id): its position, 0 when there is none
FindTemplate(tpls, id) ==
    IF \E i \in 1..Len(tpls) : tpls[i].id = id
    THEN CHOOSE i \in 1..Len(tpls) :
            /\ tpls[i].id = id
            /\ \A j \in 1..(i - 1) : tpls[j].id # id
    ELSE 0

\* position of the explicitly selected registry entry, 0 for null
\* (tpls is state.templates, sel is state.activeTemplateId)
getExplicitActiveTemplate(tpls, sel) ==
    IF sel = NoTemplateId THEN 0
    ELSE IF sel = TEMPLATE_AUTO_ID THEN 0
    ELSE FindTemplate(tpls, sel)

RequiredKeysCount(tpl) ==
    LET m == tpl.match
    IN  IF IsObjectLike(m) /\ m.requiredKeys.t = "arr"
        THEN Cardinality({i \in 1..Len(m.requiredKeys.a) : Truthy(m.requiredKeys.a[i])})
        ELSE 0

HasTypeField(tpl) ==
    LET m == tpl.match
    IN  IsObjectLike(m) /\ m.typeField.t = "str" /\ Trim(m.typeField.s) # <<>>

\* hits * 1000 + requiredKeysCount * 10 + (hasTypeField ? 100 : 0)
Score(tpl, record) ==
    countTemplateFieldHits(tpl, record) * 1000
        + RequiredKeysCount(tpl) * 10
        + (IF HasTypeField(tpl) THEN 100 ELSE 0)

\* score >= bestScore: the last of equal scores wins
Beats_LastWins(score, bestScore) == score >= bestScore

\* score > bestScore
Beats(score, bestScore) == score > bestScore

RECURSIVE BestLoop(_, _, _, _, _)
\* the for loop of getBestTemplateForRecord from entry i on
BestLoop(tpls, record, i, best, bestScore) ==
    IF i > Len(tpls) THEN best
    ELSE LET tpl == EntryTemplate(tpls[i])
         IN  IF ~templateMatchesRecord(tpl, record)
             THEN BestLoop(tpls, record, i + 1, best, bestScore)
             ELSE IF countTemplateFieldHits(tpl, record) <= 0
             THEN BestLoop(tpls, record, i + 1, best, bestScore)
             ELSE IF Beats(Score(tpl, record), bestScore)
             THEN BestLoop(tpls, record, i + 1, i, Score(tpl, record))
             ELSE BestLoop(tpls, record, i + 1, best, bestScore)

\* position of the best entry, 0 for null
getBestTemplateForRecord(tpls, record) ==
    IF ~IsObjectLike(record) THEN 0
    ELSE IF Len(tpls) = 0 THEN 0
    ELSE BestLoop(tpls, record, 1, 0, -1)

\* an explicit selection is dropped as well when it finds no field
getTemplateForRecord_NeedsHits(tpls, sel, record) ==
    IF sel = NoTemplateId THEN 0
    ELSE IF sel = TEMPLATE_AUTO_ID THEN getBestTemplateForRecord(tpls, record)
    ELSE LET explicit == getExplicitActiveTemplate(tpls, sel)
         IN  IF explicit = 0 THEN 0
             ELSE IF ~templateMatchesRecord(EntryTemplate(tpls[explicit]), record)
             THEN 0
             ELSE IF countTemplateFieldHits(EntryTemplate(tpls[explicit]), record) = 0
             THEN 0
             ELSE explicit

\* position of the entry to use for the record, 0 for null
getTemplateForRecord(tpls, sel, record) ==
    IF sel = NoTemplateId THEN 0
    ELSE IF sel = TEMPLATE_AUTO_ID THEN getBestTemplateForRecord(tpls, record)
    ELSE LET explicit == getExplicitActiveTemplate(tpls, sel)
         IN  IF explicit = 0 THEN 0
             ELSE IF ~templateMatchesRecord(EntryTemplate(tpls[explicit]), record)
             THEN 0
             ELSE explicit

\* resolved ? resolved.templateObj : null
TemplateObjOf(tpls, resolved) ==
    IF resolved = 0 THEN JNull ELSE EntryTemplate(tpls[resolved])

----------------------------------------------------------------------------
(* Template files as uploaded: the JSON value of a file, validateTemplate   *)
(* on that value, and what addTemplateFiles does with one file              *)

sTemplateVersion == <<"t", "e", "m", "p", "l", "a", "t", "e", "V", "e", "r", "s", "i", "o", "n">>
sTemplateName == <<"t", "e", "m", "p", "l", "a", "t", "e", "N", "a", "m", "e">>
sLayout == <<"l", "a", "y", "o", "u", "t">>
sSectionKey == <<"s", "e", "c", "t", "i", "o", "n">>
sFields == <<"f", "i", "e", "l", "d", "s">>
sPath == <<"p", "a", "t", "h">>
sLabelKey == <<"l", "a", "b", "e", "l">>
sFormat == <<"f", "o", "r", "m", "a", "t">>
sItemKeyPath == <<"i", "t", "e", "m", "K", "e", "y", "P", "a", "t", "h">>
sValuePaths == <<"v", "a", "l", "u", "e", "P", "a", "t", "h", "s">>
sMaxItems == <<"m", "a", "x", "I", "t", "e", "m", "s">>
sMatch == <<"m", "a", "t", "c", "h">>
sRequiredKeys == <<"r", "e", "q", "u", "i", "r", "e", "d", "K", "e", "y", "s">>
sTypeField == <<"t", "y", "p", "e", "F", "i", "e", "l", "d">>
sTypeValue == <<"t", "y", "p", "e", "V", "a", "l", "u", "e">>
sRecordLabel == <<"r", "e", "c", "o", "r", "d", "L", "a", "b", "e", "l">>

\* the properties of an object literal that are set
Defined(kvs) == SelectSeq(kvs, LAMBDA kv : kv.v # JUndef)

FieldJson(f) ==
    JObj(Defined(<<KV(sPath, f.path), KV(sLabelKey, f.label), KV(sFormat, f.format),
                   KV(sItemKeyPath, f.itemKeyPath), KV(sValuePaths, f.valuePaths),
                   KV(sMaxItems, f.maxItems)>>))

SectionJson(sec) ==
    JObj(<<KV(sSectionKey, JStr(sec.section)),
           KV(sFields, JArr([j \in 1..Len(sec.fields) |-> FieldJson(sec.fields[j])]))>>)

MatchJson(m) ==
    IF m.t = "obj"
    THEN JObj(Defined(<<KV(sRequiredKeys, m.requiredKeys), KV(sTypeField, m.typeField),
                        KV(sTypeValue, m.typeValue)>>))
    ELSE m

\* the JSON value whose properties the template engine reads as tpl
TemplateJson(tpl) ==
    JObj(Defined(<<KV(sTemplateVersion, JNum(1)),
                   KV(sTemplateName, JStr(tpl.templateName)),
                   KV(sLayout, JArr([i \in 1..Len(tpl.layout) |->
                                        SectionJson(tpl.layout[i])])),
                   KV(sMatch, MatchJson(tpl.match))>>))

\* one well-formed field and one section around a list of fields
oField == JObj(<<KV(sPath, JStr(sA)), KV(sLabelKey, JStr(sLabel))>>)
OneSection(fields) ==
    JArr(<<JObj(<<KV(sSectionKey, JStr(sSection)), KV(sFields, JArr(fields))>>)>>)
Candidate(version, name, layout, match) ==
    JObj(Defined(<<KV(sTemplateVersion, version), KV(sTemplateName, name),
                   KV(sLayout, layout), KV(sMatch, match)>>))

\* parseJsonOrJsonc(raw) of each uploaded file; JThrow is a SyntaxError
CandidateParse(src) ==
    CASE src = "broken" -> JThrow
      [] src = "notObject" -> JArr(<<>>)
      [] src = "nullDoc" -> JNull
      [] src = "noVersion" -> Candidate(JStr(<<"1">>), JStr(sA), OneSection(<<oField>>), JUndef)
      [] src = "blankName" -> Candidate(JNum(1), JStr(sBlank), OneSection(<<oField>>), JUndef)
      [] src = "noLayout" -> Candidate(JNum(1), JStr(sA), JObj(<<>>), JUndef)
      [] src = "flatLayout" -> Candidate(JNum(1), JStr(sA), JArr(<<JStr(sA)>>), JUndef)
      [] src = "noSectionName" ->
            Candidate(JNum(1), JStr(sA),
                      JArr(<<JObj(<<KV(sFields, JArr(<<oField>>))>>)>>), JUndef)
      [] src = "noFields" ->
            Candidate(JNum(1), JStr(sA),
                      JArr(<<JObj(<<KV(sSectionKey, JStr(sSection))>>)>>), JUndef)
      [] src = "nullField" ->
            Candidate(JNum(1), JStr(sA), OneSection(<<oField, JNull>>), JUndef)
      [] src = "numPath" ->
            Candidate(JNum(1), JStr(sA),
                      OneSection(<<oField,
                                   JObj(<<KV(sPath, JNum(0)), KV(sLabelKey, JStr(sLabel))>>)>>),
                      JUndef)
      [] src = "blankLabel" ->
            Candidate(JNum(1), JStr(sA),
                      OneSection(<<JObj(<<KV(sPath, JStr(sA)), KV(sLabelKey, JStr(sBlank))>>)>>),
                      JUndef)
      [] src = "matchArray" ->
            Candidate(JNum(1), JStr(sA), OneSection(<<oField>>), JArr(<<>>))
      [] src = "keysString" ->
            Candidate(JNum(1), JStr(sA), OneSection(<<oField>>),
                      JObj(<<KV(sRequiredKeys, JStr(sA))>>))
      [] OTHER -> TemplateJson(TemplateOf(src))

Accept == [ok |-> TRUE, error |-> "null", si |-> -1, fi |-> -1]
Reject(error, si, fi) == [ok |-> FALSE, error |-> error, si |-> si, fi |-> fi]

\* !x || typeof x !== 'object' || Array.isArray(x)
NotPlainObject(x) == ~Truthy(x) \/ ~TypeofObject(x) \/ x.t = "arr"

\* typeof x !== 'string' || !x.trim()
NotNonEmptyString(x) == x.t # "str" \/ Trim(x.s) = <<>>

\* the checks of one field, "" when it passes
FieldError(f) ==
    IF NotPlainObject(f) THEN "must be an object."
    ELSE IF NotNonEmptyString(PropGet(f, sPath)) THEN "path must be a string."
    ELSE IF NotNonEmptyString(PropGet(f, sLabelKey)) THEN "label must be a string."
    ELSE ""

RECURSIVE FieldsLoop(_, _, _)
\* the inner for loop from field fi (0-based) on
FieldsLoop(fields, si, fi) ==
    IF fi >= Len(fields) THEN Accept
    ELSE IF FieldError(fields[fi + 1]) # ""
    THEN Reject(FieldError(fields[fi + 1]), si, fi)
    ELSE FieldsLoop(fields, si, fi + 1)

RECURSIVE SectionsLoop(_, _)
\* the outer for loop from section si (0-based) on
SectionsLoop(layout, si) ==
    IF si >= Len(layout) THEN Accept
    ELSE IF NotPlainObject(layout[si + 1]) THEN Reject("must be an object.", si, -1)
    ELSE IF NotNonEmptyString(PropGet(layout[si + 1], sSectionKey))
    THEN Reject("section must be a string.", si, -1)
    ELSE IF PropGet(layout[si + 1], sFields).t # "arr"
    THEN Reject("fields must be an array.", si, -1)
    ELSE IF ~FieldsLoop(PropGet(layout[si + 1], sFields).a, si, 0).ok
    THEN FieldsLoop(PropGet(layout[si + 1], sFields).a, si, 0)
    ELSE SectionsLoop(layout, si + 1)

\* the optional blocks match and recordLabel
OptionalBlocks(t) ==
    IF /\ ~IsNullish(PropGet(t, sMatch))
       /\ (~TypeofObject(PropGet(t, sMatch)) \/ PropGet(t, sMatch).t = "arr")
    THEN Reject("match must be an object if provided.", -1, -1)
    ELSE IF /\ ~IsNullish(PropGet(t, sMatch))
            /\ ~IsNullish(PropGet(PropGet(t, sMatch), sRequiredKeys))
            /\ PropGet(PropGet(t, sMatch), sRequiredKeys).t # "arr"
    THEN Reject("match.requiredKeys must be an array if provided.", -1, -1)
    ELSE IF /\ ~IsNullish(PropGet(t, sRecordLabel))
            /\ (~TypeofObject(PropGet(t, sRecordLabel)) \/ PropGet(t, sRecordLabel).t = "arr")
    THEN Reject("recordLabel must be an object if provided.", -1, -1)
    ELSE IF /\ ~IsNullish(PropGet(t, sRecordLabel))
            /\ ~IsNullish(PropGet(PropGet(t, sRecordLabel), sFields))
            /\ PropGet(PropGet(t, sRecordLabel), sFields).t # "arr"
    THEN Reject("recordLabel.fields must be an array if provided.", -1, -1)
    ELSE Accept

validateTemplate(t) ==
    IF NotPlainObject(t) THEN Reject("Template must be a JSON object.", -1, -1)
    ELSE IF PropGet(t, sTemplateVersion) # JNum(1)
    THEN Reject("templateVersion must be 1.", -1, -1)
    ELSE IF NotNonEmptyString(PropGet(t, sTemplateName))
    THEN Reject("templateName must be a non-empty string.", -1, -1)
    ELSE IF PropGet(t, sLayout).t # "arr"
    THEN Reject("layout must be an array of sections.", -1, -1)
    ELSE IF ~SectionsLoop(PropGet(t, sLayout).a, 0).ok
    THEN SectionsLoop(PropGet(t, sLayout).a, 0)
    ELSE OptionalBlocks(t)

\* the file passes the filter on name and type at the head of addTemplateFiles
IsTemplateCandidate(src) == src # "notes.txt"

\* try { parse; validate } of one candidate: is it pushed to state.templates
Registers(src) ==
    /\ CandidateParse(src) # JThrow
    /\ validateTemplate(CandidateParse(src)).ok

----------------------------------------------------------------------------
(* One record handed to the template engine, for every registry, selection *)
(* and record of the bounded universe                                      *)

MaxTemplates == 2

oKvItems ==
    JArr(<< JObj(<<KV(sName, JStr(<<"n">>)), KV(sTextValue, JStr(<<"v">>))>>),
            JObj(<<KV(sName, JStr(<<"m">>))>>) >>)

TplRecords ==
    { JObj(<<KV(sA, JStr(sW)), KV(sB, JNum(1)), KV(sC, JNull)>>),
      JObj(<<KV(sA, JStr(sW))>>),
      JObj(<<KV(sA, JStr(<<>>))>>),
      JObj(<<KV(sType, JStr(sIssuePadded)), KV(sA, JStr(sW))>>),
      JObj(<<KV(sType, JNull), KV(sA, JStr(sW))>>),
      JObj(<<KV(sType, JNum(5)), KV(sB, JNum(2))>>),
      JObj(<<KV(sA, JNum(0)), KV(sB, oKvItems)>>),
      JObj(<<KV(sB, JArr(<<JObj(<<KV(sName, JStr(<<"m">>))>>)>>))>>),
      JObj(<<>>),
      JArr(<<JNum(1), JNum(2)>>),
      JArr(<<>>),
      JStr(<<"h", "i">>),
      JNum(0),
      JNull }

\* state.templates only ever holds files that validateTemplate let through
RegistrySources == {src \in TemplateSources : Registers(src)}

Registries ==
    UNION { { [i \in 1..n |-> Entry(TplIds[i], f[i])] : f \in [1..n -> RegistrySources] }
              : n \in 0..MaxTemplates }

\* the values the template dropdown offers for a registry
Selections(reg) ==
    {NoTemplateId}
        \cup (IF Len(reg) > 0 THEN {TEMPLATE_AUTO_ID} ELSE {})
        \cup {reg[i].id : i \in 1..Len(reg)}

NoView == [kind |-> "none"]

Out(op, tpl, entry, matches, html) ==
    [op |-> op, tpl |-> tpl, entry |-> entry, matches |-> matches, view |-> html]

NoOut == Out("none", 0, 0, FALSE, NoView)

TemplateInputs ==
    /\ templates \in Registries
    /\ activeTemplateId \in Selections(templates)
    /\ tplRecord \in TplRecords
    /\ tplOut = NoOut

\* the viewer resolves the template for the record and renders the record
ResolveForRecord ==
    /\ tplOut.op = "none"
    /\ LET resolved == getTemplateForRecord(templates, activeTemplateId, tplRecord)
       IN  tplOut' = Out("resolve", 0, resolved, FALSE,
                         renderRecordView("Generic", tplRecord,
                                          TemplateObjOf(templates, resolved)))
    /\ UNCHANGED <<templates, activeTemplateId, tplRecord>>

\* renderTemplateRecordView is applied to a registered template and the record
ApplyTemplate ==
    /\ tplOut.op = "none"
    /\ \E i \in 1..Len(templates) :
          tplOut' = Out("render", i, 0, FALSE,
                        renderTemplateRecordView(EntryTemplate(templates[i]), tplRecord))
    /\ UNCHANGED <<templates, activeTemplateId, tplRecord>>

\* templateMatchesRecord is applied to a registered template and the record
MatchTemplate ==
    /\ tplOut.op = "none"
    /\ \E i \in 1..Len(templates) :
          tplOut' = Out("match", i, 0,
                        templateMatchesRecord(EntryTemplate(templates[i]), tplRecord),
                        NoView)
    /\ UNCHANGED <<templates, activeTemplateId, tplRecord>>

NextTemplate ==
    \/ ResolveForRecord /\ UNCHANGED <<pathVars, viewerVars, fnVars>>
    \/ ApplyTemplate /\ UNCHANGED <<pathVars, viewerVars, fnVars>>
    \/ MatchTemplate /\ UNCHANGED <<pathVars, viewerVars, fnVars>>

----------------------------------------------------------------------------
(* Record extraction, type detection, dataset detection *)

candidateKeys ==
    << <<"i", "t", "e", "m", "s">>,
       <<"r", "e", "s", "u", "l", "t", "s">>,
       <<"d", "a", "t", "a">>,
       <<"v", "a", "l", "u", "e">>,
       <<"r", "e", "c", "o", "r", "d", "s">>,
       <<"i", "s", "s", "u", "e", "s">>,
       <<"r", "f", "i", "s">>,
       <<"s", "u", "b", "m", "i", "t", "t", "a", "l", "s">>,
       <<"I", "s", "s", "u", "e", "s">>,
       <<"R", "F", "I", "s">>,
       <<"S", "u", "b", "m", "i", "t", "t", "a", "l", "s">>,
       <<"I", "t", "e", "m", "s">>,
       <<"R", "e", "s", "u", "l", "t", "s">>,
       <<"D", "a", "t", "a">>,
       <<"V", "a", "l", "u", "e">>,
       <<"R", "e", "c", "o", "r", "d", "s">> >>

\* arr.filter((x) => x && typeof x === 'object')
FilterObjects(a) == SelectSeq(a, IsObjectLike)

RECURSIVE ScanCandidateKeys(_, _)
\* the loop over candidateKeys from position i on
ScanCandidateKeys(json, i) ==
    IF i > Len(candidateKeys)
    THEN [records |-> <<json>>, sourcePath |-> <<"$">>]
    ELSE IF PropGet(json, candidateKeys[i]).t = "arr"
    THEN [records |-> FilterObjects(PropGet(json, candidateKeys[i]).a),
          sourcePath |-> <<"$", ".">> \o candidateKeys[i]]
    ELSE ScanCandidateKeys(json, i + 1)

\* sourcePath null is the empty sequence
extractRecords(json) ==
    IF json.t = "arr"
    THEN [records |-> FilterObjects(json.a), sourcePath |-> <<"$">>]
    ELSE IF json.t = "obj" THEN ScanCandidateKeys(json, 1)
    ELSE [records |-> <<>>, sourcePath |-> <<>>]

\* s.includes(sub)
Includes(s, sub) ==
    \E i \in 0..(Len(s) - Len(sub)) : SubSeq(s, i + 1, i + Len(sub)) = sub

\* only the lower-case hint fields
hintKeys_LowerCaseOnly ==
    << <<"t", "y", "p", "e">>,
       <<"e", "n", "t", "i", "t", "y">>,
       <<"r", "e", "s", "o", "u", "r", "c", "e">>,
       <<"r", "e", "c", "o", "r", "d", "T", "y", "p", "e">> >>

hintKeys ==
    << <<"t", "y", "p", "e">>,
       <<"T", "y", "p", "e">>,
       <<"e", "n", "t", "i", "t", "y">>,
       <<"E", "n", "t", "i", "t", "y">>,
       <<"r", "e", "s", "o", "u", "r", "c", "e">>,
       <<"R", "e", "s", "o", "u", "r", "c", "e">>,
       <<"r", "e", "c", "o", "r", "d", "T", "y", "p", "e">>,
       <<"R", "e", "c", "o", "r", "d", "T", "y", "p", "e">> >>

RECURSIVE firstStringFrom(_, _, _)
firstStringFrom(obj, keys, i) ==
    IF i > Len(keys) THEN <<>>
    ELSE LET v == PropGet(obj, keys[i])
         IN  IF IsObjectLike(obj) /\ v.t = "str" /\ Trim(v.s) # <<>> THEN Trim(v.s)
             ELSE firstStringFrom(obj, keys, i + 1)

\* the first non-empty string among obj[keys], trimmed; null is the empty sequence
firstString(obj, keys) == firstStringFrom(obj, keys, 1)

\* keys.some((k) => hasOwnProperty.call(obj, k))
hasAny(obj, keys) == \E i \in 1..Len(keys) : HasOwnProperty(obj, keys[i])

detectRecordTypeFromObject(obj) ==
    IF obj.t # "obj" THEN "Generic"
    ELSE LET hint == firstString(obj, hintKeys)
             norm == ToLowerCase(hint)
             has(k) == HasOwnProperty(obj, k)
             issueSignals ==
                 /\ has(<<"T", "i", "t", "l", "e">>) \/ has(<<"t", "i", "t", "l", "e">>)
                 /\ has(<<"S", "t", "a", "t", "u", "s">>) \/ has(<<"s", "t", "a", "t", "u", "s">>)
                 /\ has(<<"P", "r", "i", "o", "r", "i", "t", "y">>) \/ has(<<"p", "r", "i", "o", "r", "i", "t", "y">>)
                 /\ has(<<"A", "s", "s", "i", "g", "n", "e", "d", "T", "o">>) \/ has(<<"a", "s", "s", "i", "g", "n", "e", "d", "T", "o">>) \/ has(<<"A", "u", "t", "h", "o", "r">>) \/ has(<<"a", "u", "t", "h", "o", "r">>)
             issueExtraSignals ==
                 hasAny(obj, << <<"V", "i", "e", "w", "p", "o", "i", "n", "t", "s">>,
                                <<"v", "i", "e", "w", "p", "o", "i", "n", "t", "s">>,
                                <<"D", "i", "s", "c", "i", "p", "l", "i", "n", "e", "s">>,
                                <<"d", "i", "s", "c", "i", "p", "l", "i", "n", "e", "s">>,
                                <<"H", "i", "s", "t", "o", "r", "y">>,
                                <<"h", "i", "s", "t", "o", "r", "y">> >>)
             rfiSignals ==
                 \/ hasAny(obj, << <<"Q", "u", "e", "s", "t", "i", "o", "n">>,
                                   <<"q", "u", "e", "s", "t", "i", "o", "n">>,
                                   <<"R", "f", "i", "Q", "u", "e", "s", "t", "i", "o", "n">>,
                                   <<"r", "f", "i", "Q", "u", "e", "s", "t", "i", "o", "n">> >>)
                 \/ hasAny(obj, << <<"A", "n", "s", "w", "e", "r">>,
                                   <<"a", "n", "s", "w", "e", "r">>,
                                   <<"R", "e", "s", "p", "o", "n", "s", "e">>,
                                   <<"r", "e", "s", "p", "o", "n", "s", "e">> >>)
                 \/ /\ hasAny(obj, << <<"B", "a", "l", "l", "I", "n", "C", "o", "u", "r", "t">>,
                                      <<"b", "a", "l", "l", "I", "n", "C", "o", "u", "r", "t">>,
                                      <<"D", "u", "e", "D", "a", "t", "e">>,
                                      <<"d", "u", "e", "D", "a", "t", "e">> >>)
                    /\ hasAny(obj, << <<"R", "f", "i", "N", "u", "m", "b", "e", "r">>,
                                      <<"r", "f", "i", "N", "u", "m", "b", "e", "r">>,
                                      <<"R", "f", "i", "I", "d">>,
                                      <<"r", "f", "i", "I", "d">> >>)
             submittalSignals ==
                 \/ hasAny(obj, << <<"S", "p", "e", "c", "S", "e", "c", "t", "i", "o", "n">>,
                                   <<"s", "p", "e", "c", "S", "e", "c", "t", "i", "o", "n">>,
                                   <<"S", "p", "e", "c", "i", "f", "i", "c", "a", "t", "i", "o", "n", "S", "e", "c", "t", "i", "o", "n">> >>)
                 \/ hasAny(obj, << <<"R", "e", "v", "i", "s", "i", "o", "n">>,
                                   <<"r", "e", "v", "i", "s", "i", "o", "n">>,
                                   <<"R", "e", "v", "i", "s", "i", "o", "n", "N", "u", "m", "b", "e", "r">> >>)
                 \/ hasAny(obj, << <<"S", "u", "b", "m", "i", "t", "t", "a", "l", "N", "u", "m", "b", "e", "r">>,
                                   <<"s", "u", "b", "m", "i", "t", "t", "a", "l", "N", "u", "m", "b", "e", "r">>,
                                   <<"S", "u", "b", "m", "i", "t", "t", "a", "l", "I", "d">>,
                                   <<"s", "u", "b", "m", "i", "t", "t", "a", "l", "I", "d">> >>)
                 \/ /\ hasAny(obj, << <<"R", "e", "v", "i", "e", "w", "S", "t", "a", "t", "u", "s">>,
                                      <<"r", "e", "v", "i", "e", "w", "S", "t", "a", "t", "u", "s">>,
                                      <<"R", "e", "v", "i", "e", "w", "D", "a", "t", "e">>,
                                      <<"r", "e", "v", "i", "e", "w", "D", "a", "t", "e">> >>)
                    /\ hasAny(obj, << <<"D", "u", "e", "D", "a", "t", "e">>,
                                      <<"d", "u", "e", "D", "a", "t", "e">> >>)
         IN  IF hint # <<>> /\ Includes(norm, <<"i", "s", "s", "u", "e">>) THEN "Issue"
             ELSE IF hint # <<>> /\ (norm = <<"r", "f", "i">> \/ Includes(norm, <<"r", "e", "q", "u", "e", "s", "t", " ", "f", "o", "r", " ", "i", "n", "f", "o", "r", "m", "a", "t", "i", "o", "n">>))
             THEN "RFI"
             ELSE IF hint # <<>> /\ Includes(norm, <<"s", "u", "b", "m", "i", "t", "t", "a", "l">>) THEN "Submittal"
             ELSE IF issueSignals /\ issueExtraSignals THEN "Issue"
             ELSE IF rfiSignals THEN "RFI"
             ELSE IF submittalSignals THEN "Submittal"
             ELSE "Generic"

\* new Set(records.map((r) => detectRecordTypeFromObject(r)))
RecordTypes(records) ==
    {detectRecordTypeFromObject(records[i]) : i \in 1..Len(records)}

\* the type of the first record, whatever the others are
SingleType_FirstRecord(records, types) ==
    IF Len(records) = 0 THEN "Generic"
    ELSE detectRecordTypeFromObject(records[1])

\* the verdict of detectRecordType on the extracted records and their types
SingleType(records, types) ==
    IF Len(records) = 0 THEN "Generic"
    ELSE IF Cardinality(types) = 1 THEN CHOOSE ty \in types : TRUE
    ELSE "Generic"

TypeOfRecords(records) == SingleType(records, RecordTypes(records))

detectRecordType(json) == TypeOfRecords(extractRecords(json).records)

DATASET_MIN_ROWS == 80
DATASET_SAMPLE == 25
DATASET_MIN_SAMPLE == 10

\* arr.filter((x) => x && typeof x === 'object' && !Array.isArray(x))
FilterMappings(a) == SelectSeq(a, IsMapping)

KeysOf(o) == {o.o[i].k : i \in 1..Len(o.o)}

\* commonRatio >= 0.25 && nestedRatio <= 0.25 over the sampled objects,
\* their keys and their (object, key position) value slots
SampleIsFlat(sample, allKeys, slots) ==
    LET hitsOf(k) == Cardinality({i \in 1..Len(sample) : k \in KeysOf(sample[i])})
        \* hits / keySets.length >= 0.6
        commonCount == Cardinality({k \in allKeys : hitsOf(k) * 10 >= 6 * Len(sample)})
        totalVals == Cardinality(slots)
        nestedVals == Cardinality({sl \in slots : IsObjectLike(sample[sl[1]].o[sl[2]].v)})
    IN  IF Len(sample) < DATASET_MIN_SAMPLE THEN FALSE
        ELSE IF allKeys = {} THEN FALSE
        \* nestedRatio is 1 when there are no values
        ELSE /\ commonCount * 4 >= Cardinality(allKeys)
             /\ totalVals > 0
             /\ nestedVals * 4 <= totalVals

SampleVerdict(sample) ==
    SampleIsFlat(sample,
                 UNION {KeysOf(sample[i]) : i \in 1..Len(sample)},
                 UNION {{<<i, j>> : j \in 1..Len(sample[i].o)} : i \in 1..Len(sample)})

\* .slice(0, 25)
DatasetSample(objs) ==
    SubSeq(objs, 1, IF Len(objs) < DATASET_SAMPLE THEN Len(objs) ELSE DATASET_SAMPLE)

\* without the floor on the length of the array
isLargeFlatArrayDataset_NoFloor(json) ==
    IF json.t # "arr" THEN FALSE
    ELSE SampleVerdict(DatasetSample(FilterMappings(json.a)))

isLargeFlatArrayDataset(json) ==
    IF json.t # "arr" THEN FALSE
    ELSE IF Len(json.a) < DATASET_MIN_ROWS THEN FALSE
    ELSE SampleVerdict(DatasetSample(FilterMappings(json.a)))

----------------------------------------------------------------------------
(* Dataset view *)

clamp(n, min, max) ==
    IF n.t # "num" THEN min
    ELSE LET lo == IF n.n > min THEN n.n ELSE min
         IN  IF lo < max THEN lo ELSE max

RECURSIVE pickFirstFrom(_, _, _)
pickFirstFrom(obj, keys, i) ==
    IF i > Len(keys) THEN JNull
    ELSE IF HasOwnProperty(obj, keys[i]) THEN PropGet(obj, keys[i])
    ELSE pickFirstFrom(obj, keys, i + 1)

pickFirst(obj, keys) ==
    IF ~IsObjectLike(obj) THEN JNull ELSE pickFirstFrom(obj, keys, 1)

\* Object.keys(row) paired with row[k]
OwnValues(row) ==
    IF row.t = "obj" THEN [i \in 1..Len(row.o) |-> row.o[i].v] ELSE row.a

rowMatchesFilter(row, filter) ==
    IF filter = <<>> THEN TRUE
    ELSE IF ~IsObjectLike(row) THEN FALSE
    ELSE LET f == ToLowerCase(filter)
             candidates ==
                 << pickFirst(row, <<<<"I", "d">>, <<"i", "d">>, <<"I", "D">>>>),
                    pickFirst(row, << <<"N", "u", "m", "b", "e", "r">>,
                                      <<"n", "u", "m", "b", "e", "r">>,
                                      <<"N", "o">>, <<"n", "o">>,
                                      <<"c", "o", "d", "e">>, <<"C", "o", "d", "e">> >>),
                    pickFirst(row, << <<"T", "i", "t", "l", "e">>, <<"t", "i", "t", "l", "e">>,
                                      <<"N", "a", "m", "e">>, <<"n", "a", "m", "e">>,
                                      <<"S", "u", "b", "j", "e", "c", "t">>,
                                      <<"s", "u", "b", "j", "e", "c", "t">> >>),
                    pickFirst(row, << <<"S", "t", "a", "t", "u", "s">>,
                                      <<"s", "t", "a", "t", "u", "s">> >>),
                    pickFirst(row, << <<"T", "y", "p", "e">>, <<"t", "y", "p", "e">> >>) >>
             vals == OwnValues(row)
         IN  \/ \E i \in 1..Len(candidates) :
                   /\ ~IsNullish(candidates[i])
                   /\ Includes(ToLowerCase(JsString(candidates[i])), f)
             \/ \E i \in 1..Len(vals) :
                   \/ vals[i].t = "str" /\ Includes(ToLowerCase(vals[i].s), f)
                   \/ vals[i].t = "num" /\ Includes(JsString(vals[i]), filter)
                   \/ vals[i].t = "bool" /\ Includes(JsString(vals[i]), f)

\* list cap for dataset mode
HARD_MAX == 80

\* state.datasetUiByFileId[id] as the listeners create it
NewDatasetEntry == [filter |-> <<>>, jumpIndex |-> JNull, lastJumpInput |-> <<>>]

\* arr.map((row, idx) => ({ row, idx })) filtered by rowMatchesFilter: the
\* positions (0-based) of the rows that pass the filter, in order
MatchingRows(arr, filter) ==
    SelectSeq([i \in 1..Len(arr.a) |-> i - 1],
              LAMBDA idx : rowMatchesFilter(arr.a[idx + 1], filter))

\* the filtered list of renderDatasetView: the first HARD_MAX matching rows
DatasetList(arr, matches) ==
    [kind |-> "datasetList",
     rows |-> SubSeq(matches, 1, IF Len(matches) < HARD_MAX THEN Len(matches)
                                 ELSE HARD_MAX),
     matching |-> Len(matches),
     of |-> Len(arr.a),
     capNote |-> Len(matches) > HARD_MAX]

\* a filter that is set wins over the row that was asked for
renderDatasetView_FilterWins(arr, entry) ==
    IF entry.jumpIndex.t = "num" /\ entry.filter = <<>>
    THEN [kind |-> "datasetRow",
          row |-> clamp(entry.jumpIndex, 0, Len(arr.a) - 1) + 1,
          of |-> Len(arr.a),
          item |-> ElemAt(arr, clamp(entry.jumpIndex, 0, Len(arr.a) - 1)),
          jumpNote |-> entry.jumpIndex.n > Len(arr.a) - 1,
          requestedLabel |-> entry.lastJumpInput]
    ELSE DatasetList(arr, MatchingRows(arr, entry.filter))

\* entry is state.datasetUiByFileId[lfId] || { filter: '', jumpIndex: null }
renderDatasetView(arr, entry) ==
    IF entry.jumpIndex.t = "num"
    THEN LET jumpIndex == entry.jumpIndex.n
             safe == clamp(entry.jumpIndex, 0, Len(arr.a) - 1)
             outOfRange == jumpIndex < 0 \/ jumpIndex > Len(arr.a) - 1
         IN  [kind |-> "datasetRow",
              row |-> safe + 1,
              of |-> Len(arr.a),
              item |-> ElemAt(arr, safe),
              jumpNote |-> outOfRange,
              requestedLabel |-> IF entry.lastJumpInput # <<>> THEN entry.lastJumpInput
                                 ELSE IntToStr(jumpIndex + 1)]
    ELSE DatasetList(arr, MatchingRows(arr, entry.filter))

----------------------------------------------------------------------------
(* Files.  A dropped file is one of a few documents; JSON.parse of its text *)
(* is the document's value, or a SyntaxError.                               *)

sId == <<"i", "d">>

RowsLen == 80

\* text of each file as JSON.parse sees it: ok is FALSE for a SyntaxError,
\* empty is TRUE for a text that is blank after trim()
DocParse(name) ==
    CASE name = "rows.json" ->
            [empty |-> FALSE, ok |-> TRUE,
             json |-> JArr([i \in 1..RowsLen |->
                              JObj(<<KV(sId, JNum(i)), KV(sA, JStr(sW))>>)])]
      [] name = "pair.json" ->
            [empty |-> FALSE, ok |-> TRUE,
             json |-> JArr(<< JObj(<<KV(sType, JStr(sIssue)), KV(sA, JStr(sW))>>),
                              JNum(7),
                              JArr(<<JNum(1), JNum(2)>>) >>)]
      [] name = "wrapper.json" ->
            [empty |-> FALSE, ok |-> TRUE,
             json |-> JObj(<< KV(sItems, JArr(<< JObj(<<KV(sA, JStr(sW))>>),
                                                 JObj(<<KV(sB, JNum(1))>>),
                                                 JObj(<<KV(sA, JStr(<<>>))>>) >>)) >>)]
      [] name = "null.json" ->
            [empty |-> FALSE, ok |-> TRUE, json |-> JNull]
      [] name = "bad.json" ->
            [empty |-> FALSE, ok |-> FALSE, json |-> JNull]
      [] name = "empty.json" ->
            [empty |-> TRUE, ok |-> FALSE, json |-> JNull]

\* new LoadedFile(file, id) after readAndParse: error is TRUE for a non-null
\* error string; text and json are those of the file named
ViewerDocs == {"rows.json", "pair.json", "wrapper.json", "null.json", "bad.json"}

\* the files of the sessions that ingest broken files
IngestDocs == {"bad.json", "empty.json", "pair.json", "rows.json"}

\* without the guard for an empty file
Parsed_NoEmptyGuard(p) ==
    IF p.ok \/ p.empty
    THEN [error |-> FALSE, recordType |-> detectRecordType(p.json), json |-> p.json]
    ELSE [error |-> TRUE, recordType |-> "Generic", json |-> JNull]

\* what readAndParse leaves in lf.error, lf.recordType and lf.json
Parsed(p) ==
    IF p.empty THEN [error |-> TRUE, recordType |-> "Generic", json |-> JNull]
    ELSE IF p.ok
    THEN [error |-> FALSE, recordType |-> detectRecordType(p.json), json |-> p.json]
    ELSE [error |-> TRUE, recordType |-> "Generic", json |-> JNull]

\* each document read and parsed, worked out once
ParsedDocs == [name \in ViewerDocs \cup IngestDocs |-> Parsed(DocParse(name))]

readAndParse(id, name) ==
    [id |-> id, name |-> name,
     error |-> ParsedDocs[name].error,
     recordType |-> ParsedDocs[name].recordType]

\* lf.json
FileJson(lf) == ParsedDocs[lf.name].json

\* extractRecords(lf.json).records and isLargeFlatArrayDataset(lf.json) of each
\* document, worked out once
DocFacts ==
    [name \in ViewerDocs \cup IngestDocs |->
        [records |-> extractRecords(ParsedDocs[name].json).records,
         autoDataset |-> isLargeFlatArrayDataset(ParsedDocs[name].json)]]

----------------------------------------------------------------------------
(* The viewer.  The operators below take and return the program state as a *)
(* record s of the state object's fields, the DOM controls (els) and the   *)
(* last content written to the viewer pane (view).                         *)

\* state.activeFileId = null
NoFileId == 0

NoMap == [k \in {} |-> 0]
Get(m, id, default) == IF id \in DOMAIN m THEN m[id] ELSE default
Put(m, id, v) == [k \in (DOMAIN m) \cup {id} |-> IF k = id THEN v ELSE m[k]]

\* Number(rawStr) of a trimmed, non-empty string: digits with an optional
\* minus sign are that integer, any other text of the inputs is NaN
JsNumber(str) ==
    IF \A i \in 1..Len(str) : str[i] \in Digits THEN JNum(ToNumber(str))
    ELSE IF /\ str[1] = "-"
            /\ Len(str) > 1
            /\ \A i \in 2..Len(str) : str[i] \in Digits
    THEN JNum(-ToNumber(Tail(str)))
    ELSE JUndef

\* what renderViewer wrote in state s: kind of content, the datasetMode it
\* computed, how many times it called getTemplateForRecord, the id of the
\* template it handed to renderRecordView, and the content; with the template
\* selection and the number of registered templates it ran under
View(s, kind, datasetMode, consulted, applied, out) ==
    [kind |-> kind, datasetMode |-> datasetMode, consulted |-> consulted,
     applied |-> applied, out |-> out,
     selection |-> s.activeTemplateId, registered |-> Len(s.templates)]

\* position in s.files of the active file, 0 for null
getActiveFile(s) ==
    IF s.activeFileId = NoFileId THEN 0
    ELSE IF \E i \in 1..Len(s.files) : s.files[i].id = s.activeFileId
    THEN CHOOSE i \in 1..Len(s.files) :
            /\ s.files[i].id = s.activeFileId
            /\ \A j \in 1..(i - 1) : s.files[j].id # s.activeFileId
    ELSE 0

\* the selector is ignored
ModeDecision_AutoOnly(userMode, autoDataset) == autoDataset

\* userMode === 'dataset' ? true : userMode === 'records' ? false : autoDataset
ModeDecision(userMode, autoDataset) ==
    IF userMode = "dataset" THEN TRUE
    ELSE IF userMode = "records" THEN FALSE
    ELSE autoDataset

\* renderRecordView of the active record with the template resolved for it
RecordView(s, lf, selected, activeRecord, resolved, datasetMode, lookups) ==
    [s EXCEPT !.selectedRecordIndexByFileId = selected,
              !.els.datasetDisabled = TRUE,
              !.view = View(s, "record", datasetMode, lookups + 1,
                            IF resolved = 0 THEN NoTemplateId
                            ELSE s.templates[resolved].id,
                            renderRecordView(lf.recordType, activeRecord,
                                             TemplateObjOf(s.templates, resolved)))]

\* the active record after the selection has been aligned with a jumped row
ActiveRecord(records, json, selected, id) ==
    IF Len(records) > 0
    THEN records[clamp(JNum(Get(selected, id, 0)), 0, Len(records) - 1) + 1]
    ELSE json

ResolveAndView(s, lf, selected, activeRecord, datasetMode, lookups) ==
    RecordView(s, lf, selected, activeRecord,
               getTemplateForRecord(s.templates, s.activeTemplateId, activeRecord),
               datasetMode, lookups)

SelectedAfterJump(s, lf, records) ==
    LET dsEntry == Get(s.datasetUiByFileId, lf.id, NewDatasetEntry)
    IN  IF /\ lf.id \in DOMAIN s.datasetUiByFileId
           /\ dsEntry.jumpIndex.t = "num"
           /\ Len(records) > 0
        THEN Put(s.selectedRecordIndexByFileId, lf.id,
                 clamp(dsEntry.jumpIndex, 0, Len(records) - 1))
        ELSE s.selectedRecordIndexByFileId

ViewOfSelected(s, lf, json, records, selected, datasetMode, lookups) ==
    ResolveAndView(s, lf, selected, ActiveRecord(records, json, selected, lf.id),
                   datasetMode, lookups)

\* the branch of renderViewer that resolves a template and writes a record view
RecordBranch(s, lf, json, records, datasetMode, lookups) ==
    ViewOfSelected(s, lf, json, records, SelectedAfterJump(s, lf, records),
                   datasetMode, lookups)

\* the dataset handed on as the single record of the record branch
DatasetBranch_AsRecord(s, lf, json, datasetMode, lookups) ==
    RecordBranch(s, lf, json, <<json>>, datasetMode, lookups)

\* the branch of renderViewer that writes the dataset view
DatasetBranch(s, lf, json, datasetMode, lookups) ==
    LET entry == Get(s.datasetUiByFileId, lf.id, NewDatasetEntry)
    IN  [s EXCEPT !.datasetUiByFileId = Put(@, lf.id, entry),
                  !.els.datasetDisabled = FALSE,
                  !.els.datasetJump =
                      IF entry.lastJumpInput # <<>> THEN entry.lastJumpInput
                      ELSE IF entry.jumpIndex.t = "num"
                      THEN IntToStr(entry.jumpIndex.n + 1)
                      ELSE <<>>,
                  !.view = View(s, "dataset", datasetMode, lookups, NoTemplateId,
                                renderDatasetView(json, entry))]

\* renderViewer from the record picker on: records are the extracted records,
\* or the whole array as one record in dataset mode
RenderRecords(s, lf, json, parsedOk, datasetMode, records) ==
    LET hasMany == Len(records) > 1
        safeIdx == clamp(JNum(Get(s.selectedRecordIndexByFileId, lf.id, 0)),
                         0, Len(records) - 1)
        \* the record picker and its labels
        s2 == IF parsedOk /\ ~datasetMode /\ hasMany
              THEN [s EXCEPT !.selectedRecordIndexByFileId = Put(@, lf.id, safeIdx),
                             !.els.recordSelect =
                                 [disabled |-> FALSE, options |-> Len(records)]]
              ELSE [s EXCEPT !.els.recordSelect = [disabled |-> TRUE, options |-> 1]]
        \* calls of getTemplateForRecord made for the labels
        lookups == IF ~parsedOk \/ datasetMode THEN 0
                   ELSE IF hasMany THEN Len(records)
                   ELSE 1
    IN  IF lf.error
        THEN [s2 EXCEPT !.view = View(s, "error", datasetMode, lookups, NoTemplateId, NoView)]
        ELSE IF datasetMode /\ json.t = "arr"
        THEN DatasetBranch(s2, lf, json, datasetMode, lookups)
        ELSE RecordBranch(s2, lf, json, records, datasetMode, lookups)

\* renderViewer once datasetMode is decided
RenderMode(s, lf, json, parsedOk, datasetMode) ==
    RenderRecords(
        \* search controls follow datasetMode
        [s EXCEPT !.els.searchDisabled = datasetMode,
                  !.els.includeCollapsedDisabled = datasetMode,
                  !.els.includeCollapsedChecked = IF datasetMode THEN FALSE ELSE @,
                  !.searchQuery = IF datasetMode THEN <<>> ELSE @,
                  !.includeCollapsedInSearch = IF datasetMode THEN FALSE ELSE @],
        lf, json, parsedOk, datasetMode,
        IF parsedOk
        THEN (IF datasetMode THEN <<json>> ELSE DocFacts[lf.name].records)
        ELSE <<>>)

\* parsedOk && Array.isArray(lf.json) && (userMode ... autoDataset)
DatasetModeOf(s, lf, json, parsedOk) ==
    /\ parsedOk
    /\ json.t = "arr"
    /\ ModeDecision(Get(s.viewModeByFileId, lf.id, "auto"),
                    parsedOk /\ DocFacts[lf.name].autoDataset)

RenderParsed(s, lf, json, parsedOk) ==
    RenderMode(s, lf, json, parsedOk, DatasetModeOf(s, lf, json, parsedOk))

RenderFile(s, lf, json) ==
    RenderParsed(s, lf, json, ~lf.error /\ ~IsNullish(json))

renderViewer(s) ==
    LET p == getActiveFile(s)
    IN  IF p = 0 THEN [s EXCEPT !.view = View(s, "empty", FALSE, 0, NoTemplateId, NoView)]
        ELSE IF s.showRaw
        THEN [s EXCEPT !.els.recordSelect.disabled = TRUE,
                       !.view = View(s, "raw", FALSE, 0, NoTemplateId, NoView)]
        ELSE RenderFile(s, s.files[p], FileJson(s.files[p]))

syncViewerControlsEnabled(s) ==
    LET hasFile == getActiveFile(s) # 0
    IN  [s EXCEPT !.els.controlsDisabled = ~hasFile,
                  !.els.searchDisabled = ~hasFile,
                  !.els.includeCollapsedDisabled = ~hasFile,
                  !.els.recordSelect.disabled = TRUE]

setActiveFile(s, id) ==
    LET s1 == [s EXCEPT !.activeFileId = id,
                        !.selectedRecordIndexByFileId =
                            IF id \in DOMAIN @ THEN @ ELSE Put(@, id, 0),
                        !.viewModeByFileId =
                            IF id \in DOMAIN @ THEN @ ELSE Put(@, id, "auto"),
                        !.els.clearDisabled = (Len(s.files) = 0)]
    IN  [syncViewerControlsEnabled(s1) EXCEPT
            !.els.includeCollapsedChecked = s.includeCollapsedInSearch]

\* the file items (by data-file-id) that the file list shows
renderFileList(s) ==
    [s EXCEPT !.els.fileList = {s.files[i].id : i \in 1..Len(s.files)}]

renderTemplateSelect(s) ==
    [s EXCEPT !.els.templateDisabled = (Len(s.templates) = 0),
              !.els.templateOptions =
                  {NoTemplateId}
                      \cup (IF Len(s.templates) > 0 THEN {TEMPLATE_AUTO_ID} ELSE {})
                      \cup {s.templates[i].id : i \in 1..Len(s.templates)}]

clearAll(s) ==
    LET s1 == [s EXCEPT !.files = <<>>,
                        !.activeFileId = NoFileId,
                        !.selectedRecordIndexByFileId = NoMap,
                        !.viewModeByFileId = NoMap,
                        !.datasetUiByFileId = NoMap,
                        !.searchQuery = <<>>,
                        !.includeCollapsedInSearch = FALSE,
                        !.showRaw = FALSE,
                        !.els.includeCollapsedChecked = FALSE,
                        !.els.recordSelect = [disabled |-> TRUE, options |-> 1]]
        s2 == syncViewerControlsEnabled(renderViewer(renderFileList(s1)))
    IN  [s2 EXCEPT !.els.clearDisabled = TRUE]

----------------------------------------------------------------------------
(* Inputs of the path resolver *)

MaxPathLen == 4

PathAlphabet == {".", "[", "]", "0", "1", "a"}

\* "Items[0].Title"
pItemsTitle == sItems \o <<"[", "0", "]", ".">> \o sTitle
\* "a[0].a"
pA0A == <<"a", "[", "0", "]", ".", "a">>
\* "a.length"
pALength == <<"a", ".">> \o sLength
\* "a[1].a"
pA1A == <<"a", "[", "1", "]", ".", "a">>

oItemsWindow == JObj(<<KV(sItems, JArr(<<JObj(<<KV(sTitle, JStr(sWindowDetail))>>)>>))>>)
oItemsEmpty == JObj(<<KV(sItems, JArr(<<>>))>>)
oItemsString == JObj(<<KV(sItems, JStr(sNotAnArray))>>)

PathObjs ==
    { JNull, JUndef, JStr(sW), JNum(7), JBool(TRUE),
      oItemsWindow, oItemsEmpty, oItemsString,
      JObj(<<>>),
      JObj(<<KV(sA, JNull)>>),
      JObj(<<KV(sA, JStr(sW))>>),
      JObj(<<KV(sA, JArr(<<JObj(<<KV(sA, JStr(sW))>>), JNum(1)>>))>>),
      JObj(<<KV(sA, JObj(<<KV(sZero, JNum(1)), KV(sA, JNull)>>))>>),
      JObj(<<KV(sZero, JArr(<<JNull>>)), KV(sA, JNum(0))>>),
      JArr(<<JArr(<<JNum(1)>>), JObj(<<KV(sA, JNum(2))>>)>>),
      JArr(<<>>) }

Paths ==
    UNION { [1..k -> PathAlphabet] : k \in 0..MaxPathLen }
        \cup {pItemsTitle, pA0A, pALength, pA1A}

PathIdle ==
    /\ pathObj = JNull
    /\ pathStr = <<>>
    /\ pathRes = [steps |-> <<>>, value |-> JUndef]
    /\ pathDone = FALSE

\* no pure function is being called
FnIdle ==
    /\ fnIn = JNull
    /\ fnOut = [op |-> "none"]

TemplateIdle ==
    /\ templates = <<>>
    /\ activeTemplateId = NoTemplateId
    /\ tplRecord = JNull
    /\ tplOut = NoOut

----------------------------------------------------------------------------
(* The viewer as a state machine: one action per listener, and one per     *)
(* resumption of addFiles / addTemplateFiles after an awaited file read    *)

MaxFiles == 2
MaxViewerTemplates == 1
\* events handled in one session, and the highest record the user picks
MaxEvents == 4
MaxPick == 2

ViewerTemplateFiles == {"plain", "arr"}

\* what the user types in the dataset filter, the row box and the search box
FilterInputs == {<<"7">>}
JumpInputs == {<<>>, <<"2">>, <<"9", "9">>}
SearchInputs == {<<"w">>}

\* the program state as one record
Cur ==
    [files |-> files,
     activeFileId |-> activeFileId,
     selectedRecordIndexByFileId |-> selectedRecordIndexByFileId,
     viewModeByFileId |-> viewModeByFileId,
     datasetUiByFileId |-> datasetUiByFileId,
     showRaw |-> showRaw,
     searchQuery |-> searchQuery,
     includeCollapsedInSearch |-> includeCollapsedInSearch,
     templates |-> templates,
     activeTemplateId |-> activeTemplateId,
     els |-> els,
     view |-> view,
     warnings |-> consoleWarnings]

\* the handler leaves the program in state s
Commit(s) ==
    /\ files' = s.files
    /\ activeFileId' = s.activeFileId
    /\ selectedRecordIndexByFileId' = s.selectedRecordIndexByFileId
    /\ viewModeByFileId' = s.viewModeByFileId
    /\ datasetUiByFileId' = s.datasetUiByFileId
    /\ showRaw' = s.showRaw
    /\ searchQuery' = s.searchQuery
    /\ includeCollapsedInSearch' = s.includeCollapsedInSearch
    /\ templates' = s.templates
    /\ activeTemplateId' = s.activeTemplateId
    /\ els' = s.els
    /\ view' = s.view
    /\ consoleWarnings' = s.warnings

Batches(S, n) == UNION {[1..k -> S] : k \in 1..n}

\* the controls before any file is loaded
InitialEls(d) ==
    [recordSelect |-> [disabled |-> d, options |-> 1],
     datasetDisabled |-> d,
     datasetJump |-> <<>>,
     searchDisabled |-> d,
     includeCollapsedDisabled |-> d,
     includeCollapsedChecked |-> FALSE,
     controlsDisabled |-> d,
     rawChecked |-> FALSE,
     clearDisabled |-> d,
     fileList |-> {},
     templateDisabled |-> d,
     templateOptions |-> {NoTemplateId}]

\* the state object as declared, after init() has run renderFileList and renderViewer
ViewerInit(d) ==
    /\ files = <<>>
    /\ activeFileId = NoFileId
    /\ selectedRecordIndexByFileId = NoMap
    /\ viewModeByFileId = NoMap
    /\ datasetUiByFileId = NoMap
    /\ showRaw = FALSE
    /\ searchQuery = <<>>
    /\ includeCollapsedInSearch = FALSE
    /\ els = InitialEls(d)
    /\ view = [kind |-> "empty", datasetMode |-> FALSE, consulted |-> 0,
               applied |-> NoTemplateId, out |-> NoView,
               selection |-> NoTemplateId, registered |-> 0]
    /\ addFilesCalls = <<>>
    /\ templateUploads = <<>>
    /\ consoleWarnings = <<>>
    /\ events = 0

ViewerIdle == ViewerInit(TRUE)

Init ==
    /\ ViewerInit(TRUE)
    /\ templates = <<>>
    /\ activeTemplateId = NoTemplateId
    /\ tplRecord = JNull
    /\ tplOut = NoOut
    /\ PathIdle
    /\ FnIdle

PendingFiles ==
    LET RECURSIVE Sum(_)
        Sum(k) == IF k > Len(addFilesCalls) THEN 0
                  ELSE (Len(addFilesCalls[k].names) - addFilesCalls[k].done) + Sum(k + 1)
    IN  Sum(1)

MaxOf(S) == CHOOSE x \in S : \A y \in S : y <= x

Remove(seq, k) == SubSeq(seq, 1, k - 1) \o SubSeq(seq, k + 1, Len(seq))

\* addFiles up to its first await: the ids of the batch are fixed here
StartFiles(names) ==
    LET startId == IF Len(files) > 0
                   THEN MaxOf({files[i].id : i \in 1..Len(files)}) + 1
                   ELSE 1
    IN  /\ addFilesCalls' =
               Append(addFilesCalls, [startId |-> startId, names |-> names, done |-> 0])
        /\ UNCHANGED <<files, activeFileId, selectedRecordIndexByFileId,
                       viewModeByFileId, datasetUiByFileId, showRaw, searchQuery,
                       includeCollapsedInSearch, els, view, templates,
                       activeTemplateId, templateUploads, consoleWarnings>>

AddFilesStart ==
    \E names \in Batches(ViewerDocs, MaxFiles - Len(files) - PendingFiles) :
        StartFiles(names)

\* the continuation of call k of addFiles after lf has been read and parsed
AfterRead(k, call, lf) ==
    LET i == call.done + 1
        errors == [j \in 1..Len(call.names) |-> ~DocParse(call.names[j]).ok]
        good == {j \in 1..Len(call.names) : ~errors[j]}
        chosen == call.startId - 1
                      + (IF good # {} THEN MaxOf(good) ELSE Len(call.names))
    IN  IF i < Len(call.names)
        THEN /\ Commit([Cur EXCEPT !.files = Append(@, lf)])
             /\ addFilesCalls' = [addFilesCalls EXCEPT ![k].done = i]
        ELSE /\ Commit(renderTemplateSelect(renderViewer(renderFileList(
                           setActiveFile([Cur EXCEPT !.files = Append(@, lf)], chosen)))))
             /\ addFilesCalls' = Remove(addFilesCalls, k)

\* addFiles resumes after one readAndParse: the file is pushed, and after the
\* last one the newest good (or newest) file becomes active and all is rendered
AddFilesResume ==
    \E k \in 1..Len(addFilesCalls) :
        /\ AfterRead(k, addFilesCalls[k],
                     readAndParse(addFilesCalls[k].startId + addFilesCalls[k].done,
                                  addFilesCalls[k].names[addFilesCalls[k].done + 1]))
        /\ UNCHANGED templateUploads

\* click or Enter/Space on an item of the file list
FileItemClick ==
    \E id \in els.fileList :
        /\ Commit(renderViewer(renderFileList(setActiveFile(Cur, id))))
        /\ UNCHANGED <<addFilesCalls, templateUploads>>

\* the user picks option idx of the record picker
PickRecord(idx) ==
    /\ ~els.recordSelect.disabled
    /\ getActiveFile(Cur) # 0
    /\ idx \in 0..(els.recordSelect.options - 1)
    /\ Commit(renderViewer([Cur EXCEPT !.selectedRecordIndexByFileId =
                                        Put(@, Cur.files[getActiveFile(Cur)].id, idx)]))
    /\ UNCHANGED <<addFilesCalls, templateUploads>>

RecordSelectChange == \E idx \in 0..MaxPick : PickRecord(idx)

ModeSelectChange ==
    /\ ~els.controlsDisabled
    /\ getActiveFile(Cur) # 0
    /\ \E v \in {"auto", "dataset", "records"} :
          Commit(renderViewer([Cur EXCEPT !.viewModeByFileId =
                                              Put(@, Cur.files[getActiveFile(Cur)].id, v)]))
    /\ UNCHANGED <<addFilesCalls, templateUploads>>

RawToggleChange ==
    /\ ~els.controlsDisabled
    /\ Commit(renderViewer([Cur EXCEPT !.els.rawChecked = ~@,
                                       !.showRaw = ~els.rawChecked]))
    /\ UNCHANGED <<addFilesCalls, templateUploads>>

SearchInput ==
    /\ ~els.searchDisabled
    /\ \E q \in SearchInputs :
          Commit(renderViewer([Cur EXCEPT !.searchQuery = Trim(q)]))
    /\ UNCHANGED <<addFilesCalls, templateUploads>>

IncludeCollapsedChange ==
    /\ ~els.includeCollapsedDisabled
    /\ Commit(renderViewer([Cur EXCEPT !.els.includeCollapsedChecked = ~@,
                                       !.includeCollapsedInSearch =
                                           ~els.includeCollapsedChecked]))
    /\ UNCHANGED <<addFilesCalls, templateUploads>>

ClearAll ==
    /\ ~els.clearDisabled
    /\ Commit(clearAll(Cur))
    /\ UNCHANGED <<addFilesCalls, templateUploads>>

TemplateSelectChange ==
    /\ ~els.templateDisabled
    /\ \E raw \in els.templateOptions :
          Commit(renderViewer(renderTemplateSelect([Cur EXCEPT !.activeTemplateId = raw])))
    /\ UNCHANGED <<addFilesCalls, templateUploads>>

PendingTemplates ==
    LET RECURSIVE Sum(_)
        Sum(k) == IF k > Len(templateUploads) THEN 0
                  ELSE Len(templateUploads[k]) + Sum(k + 1)
    IN  Sum(1)

\* the call is suspended at its first await unless no file passed the filter
Suspended(uploads, candidates) ==
    IF candidates = <<>> THEN uploads ELSE Append(uploads, candidates)

\* addTemplateFiles(srcs) up to its first await
StartUpload(srcs) ==
    /\ templateUploads' = Suspended(templateUploads, SelectSeq(srcs, IsTemplateCandidate))
    /\ UNCHANGED <<files, activeFileId, selectedRecordIndexByFileId,
                   viewModeByFileId, datasetUiByFileId, showRaw, searchQuery,
                   includeCollapsedInSearch, els, view, templates,
                   activeTemplateId, addFilesCalls, consoleWarnings>>

AddTemplateFilesStart ==
    \E srcs \in Batches(ViewerTemplateFiles,
                         MaxViewerTemplates - Len(templates) - PendingTemplates) :
        StartUpload(srcs)

\* a rejected candidate empties the registry
AfterCandidate_RejectClears(s, src, id) ==
    IF Registers(src)
    THEN [s EXCEPT !.templates = Append(@, Entry(id, src)),
                   !.activeTemplateId = IF @ = NoTemplateId THEN id ELSE @]
    ELSE [s EXCEPT !.warnings = Append(@, src),
                   !.templates = <<>>,
                   !.activeTemplateId = NoTemplateId]

\* the body of the for loop for one candidate: pushed with a fresh id, and made
\* the selection when there is none; or reported and skipped
AfterCandidate(s, src, id) ==
    IF Registers(src)
    THEN [s EXCEPT !.templates = Append(@, Entry(id, src)),
                   !.activeTemplateId = IF @ = NoTemplateId THEN id ELSE @]
    ELSE [s EXCEPT !.warnings = Append(@, src)]

\* addTemplateFiles resumes after one f.text(): the candidate is parsed,
\* validated and registered or skipped, and after the last file the dropdown
\* is refreshed
AddTemplateFilesResume ==
    \E k \in 1..Len(templateUploads) :
        LET srcs == templateUploads[k]
            pushed == AfterCandidate(Cur, Head(srcs), TplIds[Len(templates) + 1])
        IN  IF Len(srcs) > 1
            THEN /\ Commit(pushed)
                 /\ templateUploads' = [templateUploads EXCEPT ![k] = Tail(srcs)]
                 /\ UNCHANGED addFilesCalls
            ELSE /\ Commit(renderTemplateSelect(pushed))
                 /\ templateUploads' = Remove(templateUploads, k)
                 /\ UNCHANGED addFilesCalls

\* the active file's entry of state.datasetUiByFileId, or a new one
ActiveDatasetEntry ==
    Get(datasetUiByFileId, files[getActiveFile(Cur)].id, NewDatasetEntry)

\* the filter box now holds v
TypeFilter(v) ==
    /\ ~els.datasetDisabled
    /\ getActiveFile(Cur) # 0
    /\ Commit(renderViewer(
           [Cur EXCEPT !.datasetUiByFileId =
                           Put(@, files[getActiveFile(Cur)].id,
                               [ActiveDatasetEntry EXCEPT !.filter = Trim(v),
                                                          !.jumpIndex = JNull]),
                       !.els.datasetJump = <<>>]))
    /\ UNCHANGED <<addFilesCalls, templateUploads>>

DatasetFilterInput == \E v \in FilterInputs : TypeFilter(v)

\* typing in the row box: remembered, not rendered
TypeJump(v) ==
    /\ ~els.datasetDisabled
    /\ getActiveFile(Cur) # 0
    /\ Commit([Cur EXCEPT !.datasetUiByFileId =
                              Put(@, files[getActiveFile(Cur)].id,
                                  [ActiveDatasetEntry EXCEPT !.lastJumpInput = v]),
                          !.els.datasetJump = v])
    /\ UNCHANGED <<addFilesCalls, templateUploads>>

DatasetJumpInput == \E v \in JumpInputs : TypeJump(v)

\* Go button, or Enter in the row box
runDatasetGo ==
    /\ ~els.datasetDisabled
    /\ getActiveFile(Cur) # 0
    /\ LET rawStr == Trim(els.datasetJump)
           raw == JsNumber(rawStr)
           idx1 == IF raw.t = "num" THEN (IF raw.n > 1 THEN raw.n ELSE 1) ELSE 1
           id == files[getActiveFile(Cur)].id
       IN  IF rawStr = <<>>
           THEN Commit(renderViewer(
                    [Cur EXCEPT !.datasetUiByFileId =
                                    Put(@, id, [ActiveDatasetEntry EXCEPT
                                                   !.jumpIndex = JNull,
                                                   !.lastJumpInput = <<>>])]))
           ELSE Commit(renderViewer(
                    [Cur EXCEPT !.datasetUiByFileId =
                                    Put(@, id, [ActiveDatasetEntry EXCEPT
                                                   !.jumpIndex = JNum(idx1 - 1),
                                                   !.lastJumpInput = rawStr]),
                                !.els.datasetJump = rawStr]))
    /\ UNCHANGED <<addFilesCalls, templateUploads>>

DatasetReset ==
    /\ ~els.datasetDisabled
    /\ getActiveFile(Cur) # 0
    /\ Commit(renderViewer(
           [Cur EXCEPT !.datasetUiByFileId =
                           Put(@, files[getActiveFile(Cur)].id, NewDatasetEntry),
                       !.els.datasetJump = <<>>]))
    /\ UNCHANGED <<addFilesCalls, templateUploads>>

\* one more event handled; the rest of the module's state is not the viewer's
Tick ==
    /\ events < MaxEvents
    /\ events' = events + 1
    /\ UNCHANGED <<pathVars, tplVars, fnVars>>

Next ==
    \/ AddFilesStart /\ Tick
    \/ AddFilesResume /\ Tick
    \/ FileItemClick /\ Tick
    \/ RecordSelectChange /\ Tick
    \/ ModeSelectChange /\ Tick
    \/ RawToggleChange /\ Tick
    \/ SearchInput /\ Tick
    \/ IncludeCollapsedChange /\ Tick
    \/ ClearAll /\ Tick
    \/ TemplateSelectChange /\ Tick
    \/ AddTemplateFilesStart /\ Tick
    \/ AddTemplateFilesResume /\ Tick
    \/ DatasetFilterInput /\ Tick
    \/ DatasetJumpInput /\ Tick
    \/ runDatasetGo /\ Tick
    \/ DatasetReset /\ Tick

----------------------------------------------------------------------------
InitPath ==
    /\ pathObj \in PathObjs
    /\ pathStr \in Paths
    /\ pathRes = [steps |-> <<>>, value |-> JUndef]
    /\ pathDone = FALSE
    /\ TemplateIdle
    /\ ViewerIdle
    /\ FnIdle

\* a caller evaluates getValueAtPath(pathObj, pathStr)
ResolvePath ==
    /\ ~pathDone
    /\ pathRes' = PathWalk(pathObj, pathStr)
    /\ pathDone' = TRUE
    /\ UNCHANGED <<pathObj, pathStr>>
    /\ UNCHANGED <<registryVars, tplVars, viewerVars, fnVars>>

NextPath == ResolvePath

SpecPath == InitPath /\ [][NextPath]_vars

Spec == Init /\ [][Next]_vars

\* a registry, a selection and a record, nothing else going on
InitTemplate ==
    /\ TemplateInputs
    /\ PathIdle
    /\ ViewerIdle
    /\ FnIdle

SpecTemplate == InitTemplate /\ [][NextTemplate]_vars

----------------------------------------------------------------------------
(* Template uploads on their own: any of the files below is dropped on the *)
(* template input, and the dropdown is used                                *)

MaxUploadFiles == 2

UploadFiles ==
    {"plain", "reqA", "badPath", "broken", "notObject", "nullDoc", "noVersion",
     "blankName", "noLayout", "flatLayout", "noSectionName", "noFields",
     "nullField", "numPath", "blankLabel", "matchArray", "keysString", "notes.txt"}

UploadStart ==
    \E srcs \in Batches(UploadFiles,
                         MaxUploadFiles - Len(templates) - Len(consoleWarnings)
                             - PendingTemplates) :
        StartUpload(srcs)

NextUpload ==
    \/ UploadStart /\ Tick
    \/ AddTemplateFilesResume /\ Tick
    \/ TemplateSelectChange /\ Tick

SpecUpload == Init /\ [][NextUpload]_vars

----------------------------------------------------------------------------
(* Sessions that ingest broken files: empty and malformed files are dropped *)
(* next to good ones, files are clicked, the raw toggle and the mode select *)
(* are used                                                                 *)

MaxIngestFiles == 2

IngestStart ==
    \E names \in Batches(IngestDocs, MaxIngestFiles - Len(files) - PendingFiles) :
        StartFiles(names)

NextIngest ==
    \/ IngestStart /\ Tick
    \/ AddFilesResume /\ Tick
    \/ FileItemClick /\ Tick
    \/ RawToggleChange /\ Tick
    \/ ModeSelectChange /\ Tick

SpecIngest == Init /\ [][NextIngest]_vars

----------------------------------------------------------------------------
(* Sessions on a dataset: the file of rows is loaded, rows are requested    *)
(* (in range, zero, negative, beyond the end), the filter is edited, the    *)
(* view is reset and the mode select is used                                *)

MaxDatasetFiles == 1
MaxDatasetEvents == 5

DatasetDocs == {"rows.json"}

sBeyond == <<"9", "9">>

RowRequests ==
    {<<>>, <<"0">>, <<"-", "3">>, <<"2">>, <<"8", "0">>, <<"8", "1">>, sBeyond}

FilterEdits == {<<"7">>, sZZ}

DatasetStart ==
    \E names \in Batches(DatasetDocs, MaxDatasetFiles - Len(files) - PendingFiles) :
        StartFiles(names)

DatasetTypeFilter == \E v \in FilterEdits : TypeFilter(v)

DatasetTypeJump == \E v \in RowRequests : TypeJump(v)

DatasetTick ==
    /\ events < MaxDatasetEvents
    /\ events' = events + 1
    /\ UNCHANGED <<pathVars, tplVars, fnVars>>

NextDataset ==
    \/ DatasetStart /\ DatasetTick
    \/ AddFilesResume /\ DatasetTick
    \/ DatasetTypeFilter /\ DatasetTick
    \/ DatasetTypeJump /\ DatasetTick
    \/ runDatasetGo /\ DatasetTick
    \/ DatasetReset /\ DatasetTick
    \/ ModeSelectChange /\ DatasetTick

SpecDataset == Init /\ [][NextDataset]_vars

----------------------------------------------------------------------------
(* The record helpers on their own: one call of extractRecords,            *)
(* detectRecordType, detectRecordTypeFromObject or isLargeFlatArrayDataset *)
(* on one parsed document                                                  *)

MaxRootLen == 3

sItemsLower == <<"i", "t", "e", "m", "s">>
sResults == <<"r", "e", "s", "u", "l", "t", "s">>
sData == <<"d", "a", "t", "a">>
sQuestion == <<"Q", "u", "e", "s", "t", "i", "o", "n">>
sAnswer == <<"A", "n", "s", "w", "e", "r">>
sRevision == <<"R", "e", "v", "i", "s", "i", "o", "n">>
sHello == <<"h", "e", "l", "l", "o">>

rPlain == JObj(<<KV(sA, JNum(1))>>)
rRfi == JObj(<<KV(sQuestion, JStr(sW)), KV(sAnswer, JStr(sW))>>)
rIssue == JObj(<<KV(sType, JStr(sIssue))>>)
rSubmittal == JObj(<<KV(sRevision, JNum(2))>>)

\* what an array of a document may hold
RootElems ==
    {JNum(1), JNull, JStr(sA), rPlain, rRfi, rIssue, JArr(<<JNum(1), JNum(2)>>)}

ArrayRoots == {JArr(a) : a \in UNION {[1..k -> RootElems] : k \in 0..MaxRootLen}}

\* what a property of a wrapper object may hold
WrapperValues ==
    {JArr(<<rPlain>>), JArr(<<JNum(1), rRfi, JArr(<<JNum(1), JNum(2)>>)>>),
     JArr(<<>>), JNum(1), JNull, JStr(sHello), rSubmittal}

WrapperKeys == {sItemsLower, sResults, sData, sItems, sA}

MappingRoots ==
    {JObj(<<>>)}
    \cup {JObj(<<KV(k, v)>>) : k \in WrapperKeys, v \in WrapperValues}
    \cup UNION {{JObj(<<KV(k1, v1), KV(k2, v2)>>) :
                    k2 \in WrapperKeys \ {k1},
                    v1 \in WrapperValues, v2 \in WrapperValues} : k1 \in WrapperKeys}

PrimitiveRoots == {JNull, JNum(1), JStr(sHello), JBool(TRUE), JBool(FALSE)}

sStatusLower == <<"s", "t", "a", "t", "u", "s">>
sPriority == <<"P", "r", "i", "o", "r", "i", "t", "y">>
sAuthorLower == <<"a", "u", "t", "h", "o", "r">>
sHistoryLower == <<"h", "i", "s", "t", "o", "r", "y">>
sDueDate == <<"D", "u", "e", "D", "a", "t", "e">>
sRfiNumber == <<"R", "f", "i", "N", "u", "m", "b", "e", "r">>
sReviewStatus == <<"R", "e", "v", "i", "e", "w", "S", "t", "a", "t", "u", "s">>
sTypeUpper == <<"T", "y", "p", "e">>
sEntity == <<"e", "n", "t", "i", "t", "y">>
sRfiPadded == <<" ", "r", "f", "i", " ">>
sRfiUpper == <<"R", "F", "I">>
sRequestForInformation == <<"A", " ", "R", "e", "q", "u", "e", "s", "t", " ", "F", "o", "r", " ", "I", "n", "f", "o", "r", "m", "a", "t", "i", "o", "n">>
sSubmittalLog == <<"s", "u", "b", "m", "i", "t", "t", "a", "l", "-", "l", "o", "g">>
sOpenIssue == <<"o", "p", "e", "n", " ", "i", "s", "s", "u", "e">>
sFoo == <<"f", "o", "o">>

\* the hint fields a record may carry
HintParts ==
    { <<>>,
      <<KV(sType, JStr(sOpenIssue))>>,
      <<KV(sType, JStr(sRfiPadded))>>,
      <<KV(sTypeUpper, JStr(sRequestForInformation))>>,
      <<KV(sEntity, JStr(sRfiUpper))>>,
      <<KV(sType, JStr(sSubmittalLog))>>,
      <<KV(sType, JStr(sFoo)), KV(sTypeUpper, JStr(sIssue))>>,
      <<KV(sType, JStr(sBlank)), KV(sTypeUpper, JStr(sIssue))>>,
      <<KV(sType, JStr(<<>>)), KV(sEntity, JStr(sSubmittalLog))>>,
      <<KV(sType, JNum(5)), KV(sEntity, JStr(sIssue))>>,
      <<KV(sTypeUpper, JStr(sIssue)), KV(sType, JStr(sRfiUpper))>> }

\* the other keys a record may carry
ShapeParts ==
    { <<>>,
      <<KV(sA, JNum(1))>>,
      <<KV(sTitle, JStr(sW)), KV(sStatusLower, JStr(sW)), KV(sPriority, JNum(1)),
        KV(sAuthorLower, JNull), KV(sHistoryLower, JArr(<<>>))>>,
      <<KV(sTitle, JStr(sW)), KV(sStatusLower, JStr(sW)), KV(sPriority, JNum(1)),
        KV(sAuthorLower, JNull)>>,
      <<KV(sTitle, JStr(sW)), KV(sStatusLower, JStr(sW)), KV(sPriority, JNum(1)),
        KV(sAuthorLower, JNull), KV(sHistoryLower, JArr(<<>>)), KV(sQuestion, JStr(sW))>>,
      <<KV(sTitle, JStr(sW)), KV(sStatusLower, JStr(sW)), KV(sPriority, JNum(1)),
        KV(sAuthorLower, JNull), KV(sAnswer, JStr(sW)), KV(sRevision, JNum(2))>>,
      <<KV(sQuestion, JStr(sW)), KV(sAnswer, JStr(sW))>>,
      <<KV(sDueDate, JStr(sW)), KV(sRfiNumber, JNum(3))>>,
      <<KV(sDueDate, JStr(sW))>>,
      <<KV(sRfiNumber, JNum(3))>>,
      <<KV(sRevision, JNum(2))>>,
      <<KV(sReviewStatus, JStr(sW)), KV(sDueDate, JStr(sW))>>,
      <<KV(sReviewStatus, JStr(sW))>>,
      <<KV(sRevision, JNum(2)), KV(sQuestion, JStr(sW))>> }

TypeRecords == {JObj(h \o sh) : h \in HintParts, sh \in ShapeParts}

\* the arrays handed to the dataset detection: Len of them is in DatasetLens,
\* they hold a number of mappings of one shape, and numbers or arrays around
\* them
DatasetLens == {50, 79, 80, 100}
MappingCounts == {9, 10, 25, 30}
RowShapes ==
    {"flat", "empty", "halfNested", "quarterNested", "thirdNested", "ownKeys",
     "oneOfFour", "oneOfFive", "sixtyPercent", "spread"}
Fillers == {JNum(1), JArr(<<JNum(1)>>)}

sD == <<"d">>
sE == <<"e">>
sK == <<"k">>

\* the i-th mapping of an array of the given shape
ShapedRow(i, shape) ==
    CASE shape = "flat" -> JObj(<<KV(sId, JNum(i)), KV(sA, JStr(sW))>>)
      [] shape = "empty" -> JObj(<<>>)
      [] shape = "halfNested" -> JObj(<<KV(sA, JNum(i)), KV(sB, JObj(<<>>))>>)
      [] shape = "quarterNested" ->
            JObj(<<KV(sA, JNum(i)), KV(sB, JArr(<<>>)), KV(sC, JNull), KV(sD, JBool(TRUE))>>)
      [] shape = "thirdNested" ->
            JObj(<<KV(sA, JNum(i)), KV(sB, JArr(<<>>)), KV(sC, JNull)>>)
      [] shape = "ownKeys" -> JObj(<<KV(sK \o NatToStr(i), JNum(i))>>)
      [] shape = "oneOfFour" ->
            JObj(<<KV(sA, JNum(i))>>
                 \o (IF i = 1 THEN <<KV(sB, JNum(1))>>
                     ELSE IF i = 2 THEN <<KV(sC, JNum(1))>>
                     ELSE IF i = 3 THEN <<KV(sD, JNum(1))>>
                     ELSE <<>>))
      [] shape = "oneOfFive" ->
            JObj(<<KV(sA, JNum(i))>>
                 \o (IF i = 1 THEN <<KV(sB, JNum(1))>>
                     ELSE IF i = 2 THEN <<KV(sC, JNum(1))>>
                     ELSE IF i = 3 THEN <<KV(sD, JNum(1))>>
                     ELSE IF i = 4 THEN <<KV(sE, JNum(1))>>
                     ELSE <<>>))
      [] shape = "sixtyPercent" ->
            JObj(<<KV(IF i % 5 \in {1, 2, 3} THEN sB ELSE IF i % 5 = 4 THEN sC ELSE sD,
                      JNum(i))>>)
      [] shape = "spread" ->
            JObj(<<KV(IF i % 5 \in {1, 2} THEN sB ELSE IF i % 5 \in {3, 4} THEN sC ELSE sD,
                      JNum(i))>>)

\* len elements: count mappings of the shape, after or before the fillers
ShapedArray(len, count, shape, filler, mappingsFirst) ==
    JArr([i \in 1..len |->
            IF mappingsFirst
            THEN (IF i <= count THEN ShapedRow(i, shape) ELSE filler)
            ELSE (IF i > len - count THEN ShapedRow(i - (len - count), shape) ELSE filler)])

DatasetArrays ==
    {ShapedArray(len, count, shape, filler, first) :
        len \in DatasetLens, count \in MappingCounts, shape \in RowShapes,
        filler \in Fillers, first \in BOOLEAN}

FnInputs ==
    ArrayRoots \cup MappingRoots \cup PrimitiveRoots \cup TypeRecords \cup DatasetArrays

FnOut(op, val) == [op |-> op, val |-> val]

InitFn ==
    /\ fnIn \in FnInputs
    /\ fnOut = [op |-> "none"]
    /\ PathIdle
    /\ TemplateIdle
    /\ ViewerIdle

ExtractRecords ==
    /\ fnOut.op = "none"
    /\ fnOut' = FnOut("extractRecords", extractRecords(fnIn))
    /\ UNCHANGED <<fnIn, pathVars, registryVars, tplVars, viewerVars>>

DetectRecordType ==
    /\ fnOut.op = "none"
    /\ fnOut' = FnOut("detectRecordType", detectRecordType(fnIn))
    /\ UNCHANGED <<fnIn, pathVars, registryVars, tplVars, viewerVars>>

DetectRecordTypeFromObject ==
    /\ fnOut.op = "none"
    /\ fnOut' = FnOut("detectRecordTypeFromObject", detectRecordTypeFromObject(fnIn))
    /\ UNCHANGED <<fnIn, pathVars, registryVars, tplVars, viewerVars>>

IsLargeFlatArrayDataset ==
    /\ fnOut.op = "none"
    /\ fnOut' = FnOut("isLargeFlatArrayDataset", isLargeFlatArrayDataset(fnIn))
    /\ UNCHANGED <<fnIn, pathVars, registryVars, tplVars, viewerVars>>

NextFn ==
    \/ ExtractRecords
    \/ DetectRecordType
    \/ DetectRecordTypeFromObject
    \/ IsLargeFlatArrayDataset

SpecFn == InitFn /\ [][NextFn]_vars


----------------------------------------------------------------------------
(* The path grammar of the template format: segments separated by ".",     *)
(* a segment is a name followed by any number of [digits] indexes, or one  *)
(* or more standalone [digits] indexes.                                    *)

RECURSIVE IndexesOnly(_, _)
\* p[i..] up to the next "." or the end is a run of [digits] groups
IndexesOnly(p, i) ==
    IF i > Len(p) \/ p[i] = "." THEN TRUE
    ELSE /\ p[i] = "["
         /\ LET j == DigitsEnd(p, i + 1)
            IN  /\ j > i + 1
                /\ j <= Len(p)
                /\ p[j] = "]"
                /\ IndexesOnly(p, j + 1)

RECURSIVE SegEnd(_, _)
SegEnd(p, i) == IF i > Len(p) \/ p[i] = "." THEN i ELSE SegEnd(p, i + 1)

RECURSIVE SegmentsOk(_, _)
SegmentsOk(p, i) ==
    /\ i <= Len(p)
    /\ p[i] # "."
    /\ LET n == NameEnd(p, i)
           e == SegEnd(p, i)
       IN  /\ IndexesOnly(p, n)
           /\ (e > Len(p) \/ SegmentsOk(p, e + 1))

ConformsToGrammar(p) == SegmentsOk(p, 1)

\* C9 (as claimed): the walk never raises; a null/undefined current value
\* ends it with undefined; an index segment yields undefined unless the
\* current value is an array; a name segment yields undefined unless the
\* current value is a mapping; and the three documented examples hold.
C9_Original ==
    pathDone =>
        /\ pathRes.value # JThrow
        /\ \A i \in 1..Len(pathRes.steps) :
              LET s == pathRes.steps[i]
                  miss == \/ IsNullish(s.cur)
                          \/ s.tok.kind = "index" /\ s.cur.t # "arr"
                          \/ s.tok.kind = "name" /\ ~IsMapping(s.cur)
              IN  miss => pathRes.value = JUndef
        /\ (pathStr = pItemsTitle /\ pathObj = oItemsWindow) => pathRes.value = JStr(sWindowDetail)
        /\ (pathStr = pItemsTitle /\ pathObj \in {oItemsEmpty, oItemsString}) => pathRes.value = JUndef

\* C10 (as claimed): a path that does not conform to the grammar never
\* raises and resolves to undefined, whatever the value it is resolved on.
C10_Original ==
    (pathDone /\ ~ConformsToGrammar(pathStr)) => pathRes.value = JUndef

----------------------------------------------------------------------------
(* Claims about the viewer (Spec) *)

RecordViewKinds == {"generic", "issue", "diagnostic", "sections"}
DatasetViewKinds == {"datasetRow", "datasetList"}

\* C1: a rendered view is a dataset view or a record view, never both: when
\* renderViewer computed datasetMode = true, the content is the one of
\* renderDatasetView, getTemplateForRecord was not called and no registered
\* template was handed to a renderer, whatever the template selection is;
\* and a dataset view is written only under datasetMode = true.
C1_DatasetModeExcludesTemplates ==
    /\ view.datasetMode =>
           /\ view.kind = "dataset"
           /\ view.out.kind \in DatasetViewKinds
           /\ view.consulted = 0
           /\ view.applied = NoTemplateId
    /\ view.kind = "dataset" => view.datasetMode
    /\ view.kind = "record" =>
           /\ ~view.datasetMode
           /\ view.out.kind \in RecordViewKinds

\* a dataset view rendered while a template is registered and selected that
\* getTemplateForRecord would hand out for the array itself
C1_Witness ==
    /\ view.datasetMode
    /\ view.kind = "dataset"
    /\ view.selection # NoTemplateId
    /\ view.registered > 0
    /\ view.registered = Len(templates)
    /\ getActiveFile(Cur) # 0
    /\ getTemplateForRecord(templates, view.selection,
                            FileJson(files[getActiveFile(Cur)])) # 0

----------------------------------------------------------------------------
(* Claims about the template engine (SpecTemplate) *)

OutTemplate == EntryTemplate(templates[tplOut.tpl])
HitsOf(i) == countTemplateFieldHits(EntryTemplate(templates[i]), tplRecord)
MatchesOf(i) == templateMatchesRecord(EntryTemplate(templates[i]), tplRecord)

\* C2: whenever countTemplateFieldHits(template, record) is 0, the view that
\* renderTemplateRecordView produces is the "No fields from this template
\* were found" card naming the template and holding the full record
\* collapsed, never the section layout.
C2_ZeroHitsGivesDiagnostic ==
    (tplOut.op = "render" /\ HitsOf(tplOut.tpl) = 0) =>
        /\ tplOut.view.kind = "diagnostic"
        /\ tplOut.view.title = "No fields from this template were found"
        /\ tplOut.view.template =
              (IF Trim(OutTemplate.templateName) = <<>> THEN sSelectedTemplate
               ELSE Trim(OutTemplate.templateName))
        /\ tplOut.view.record = tplRecord
        /\ tplOut.view.recordCollapsed

C2_Witness ==
    /\ tplOut.op = "render"
    /\ IsMapping(tplRecord)
    /\ MatchesOf(tplOut.tpl)
    /\ HitsOf(tplOut.tpl) = 0
    /\ tplOut.view.kind = "diagnostic"

\* C3: with selection None getTemplateForRecord returns null; with an
\* explicit template id it returns that registered template exactly when
\* templateMatchesRecord holds for it and null otherwise (the built-in view
\* is then rendered), however many fields the template hits.
C3_NoneAndExplicitSelection ==
    tplOut.op = "resolve" =>
        /\ activeTemplateId = NoTemplateId => tplOut.entry = 0
        /\ \A i \in 1..Len(templates) :
              activeTemplateId = templates[i].id =>
                 /\ MatchesOf(i) => tplOut.entry = i
                 /\ ~MatchesOf(i) => tplOut.entry = 0
        /\ (activeTemplateId # TEMPLATE_AUTO_ID /\ tplOut.entry = 0)
              => tplOut.view.kind = "generic"

C3_Witness ==
    /\ tplOut.op = "resolve"
    /\ IsMapping(tplRecord)
    /\ \E i \in 1..Len(templates) :
          /\ activeTemplateId = templates[i].id
          /\ MatchesOf(i)
          /\ HitsOf(i) = 0
          /\ tplOut.entry = i

\* the number of non-empty requiredKeys entries a template declares
DeclaredKeyCount(tpl) ==
    IF IsObjectLike(tpl.match) /\ tpl.match.requiredKeys.t = "arr"
    THEN Len(SelectSeq2(tpl.match.requiredKeys.a,
                        [i \in 1..Len(tpl.match.requiredKeys.a) |->
                            Truthy(tpl.match.requiredKeys.a[i])]))
    ELSE 0

DeclaresTypeField(tpl) ==
    /\ IsObjectLike(tpl.match)
    /\ tpl.match.typeField.t = "str"
    /\ Trim(tpl.match.typeField.s) # <<>>

ClaimedScore(i) ==
    LET tpl == EntryTemplate(templates[i])
    IN  HitsOf(i) * 1000 + DeclaredKeyCount(tpl) * 10
            + (IF DeclaresTypeField(tpl) THEN 100 ELSE 0)

AutoCandidates == {i \in 1..Len(templates) : MatchesOf(i) /\ HitsOf(i) > 0}

\* C4: in Auto selection the result is null when no registered template both
\* matches the record and hits at least one field; otherwise it is the
\* matching template with hits whose score hits*1000 + requiredKeyCount*10
\* + (100 if a typeField is declared) is highest, the earliest registered
\* one among those that share the highest score (requiredKeyCount counts
\* the non-empty entries of requiredKeys).
C4_AutoPicksHighestScoreFirstRegistered ==
    (tplOut.op = "resolve" /\ activeTemplateId = TEMPLATE_AUTO_ID) =>
        IF AutoCandidates = {} THEN tplOut.entry = 0
        ELSE /\ tplOut.entry \in AutoCandidates
             /\ \A j \in AutoCandidates :
                   /\ ClaimedScore(tplOut.entry) >= ClaimedScore(j)
                   /\ ClaimedScore(j) = ClaimedScore(tplOut.entry) => tplOut.entry <= j

C4_Witness ==
    /\ tplOut.op = "resolve"
    /\ activeTemplateId = TEMPLATE_AUTO_ID
    /\ Len(templates) = 2
    /\ AutoCandidates = {1, 2}
    /\ templates[1].src # templates[2].src
    /\ ClaimedScore(1) = ClaimedScore(2)
    /\ tplOut.entry = 1

\* C5 (as claimed): in Auto selection, of two matching templates A and B
\* where A hits strictly more fields than B and B hits at least one, B is
\* never the one selected, whatever requiredKeys and typeField they declare.
C5_Original ==
    (tplOut.op = "resolve" /\ activeTemplateId = TEMPLATE_AUTO_ID) =>
        \A a, b \in 1..Len(templates) :
            (MatchesOf(a) /\ MatchesOf(b) /\ HitsOf(a) > HitsOf(b) /\ HitsOf(b) >= 1)
                => tplOut.entry # b

HasNoMatchRules(tpl) ==
    \/ ~IsObjectLike(tpl.match)
    \/ /\ tpl.match.requiredKeys = JUndef
       /\ tpl.match.typeField = JUndef
       /\ tpl.match.typeValue = JUndef

\* C6 (as claimed): a template with no match block or an empty match block
\* matches every record.
C6_Original ==
    (tplOut.op = "match" /\ HasNoMatchRules(OutTemplate)) => tplOut.matches

\* C6 (amended): a template with no match block or an empty match block
\* matches every record that is a mapping.
C6_NoMatchRulesMatchesEveryMapping ==
    (tplOut.op = "match" /\ HasNoMatchRules(OutTemplate) /\ IsMapping(tplRecord))
        => tplOut.matches

C6_Witness ==
    /\ tplOut.op = "match"
    /\ OutTemplate.match = Match(JUndef, JUndef, JUndef)
    /\ IsMapping(tplRecord)
    /\ tplRecord.o = <<>>
    /\ tplOut.matches

\* C7 (as claimed): a record that is not a mapping is matched by no template
\* and gets null from getTemplateForRecord under None, Auto and every
\* explicit selection, so it is rendered through the fallback view.
C7_Original ==
    ~IsMapping(tplRecord) =>
        /\ tplOut.op = "match" => ~tplOut.matches
        /\ tplOut.op = "resolve" => tplOut.entry = 0 /\ tplOut.view.kind = "generic"

\* the requiredKeys entries that name a key
DeclaredKeys(m) ==
    IF m.requiredKeys.t = "arr"
    THEN {m.requiredKeys.a[i].s : i \in {j \in 1..Len(m.requiredKeys.a) :
                                          /\ m.requiredKeys.a[j].t = "str"
                                          /\ Trim(m.requiredKeys.a[j].s) # <<>>}}
    ELSE {}

TypeConstraintDeclared(m) ==
    /\ m.typeField.t = "str"
    /\ Trim(m.typeField.s) # <<>>
    /\ ~IsNullish(m.typeValue)

\* C8 (as claimed): with a match block, a mapping record matches exactly
\* when every declared required key is an own top-level key of the record
\* and, if typeField and typeValue are both declared, the trimmed string
\* form of record[typeField] equals the trimmed string form of typeValue.
C8_Original ==
    (tplOut.op = "match" /\ IsObjectLike(OutTemplate.match) /\ IsMapping(tplRecord)) =>
        LET m == OutTemplate.match
        IN  tplOut.matches <=>
               /\ \A k \in DeclaredKeys(m) : HasOwn(tplRecord, k)
               /\ TypeConstraintDeclared(m) =>
                     Trim(JsString(OwnGet(tplRecord, Trim(m.typeField.s))))
                         = Trim(JsString(m.typeValue))

\* C8 (amended): as claimed, except that with typeField and typeValue both
\* declared the record matches only if record[typeField] is neither null
\* nor absent and its trimmed string form equals that of typeValue.
C8_MatchBlockRules ==
    (tplOut.op = "match" /\ IsObjectLike(OutTemplate.match) /\ IsMapping(tplRecord)) =>
        LET m == OutTemplate.match
        IN  tplOut.matches <=>
               /\ \A k \in DeclaredKeys(m) : HasOwn(tplRecord, k)
               /\ TypeConstraintDeclared(m) =>
                     /\ ~IsNullish(OwnGet(tplRecord, Trim(m.typeField.s)))
                     /\ Trim(JsString(OwnGet(tplRecord, Trim(m.typeField.s))))
                           = Trim(JsString(m.typeValue))

C8_Witness ==
    /\ tplOut.op = "match"
    /\ IsObjectLike(OutTemplate.match)
    /\ TypeConstraintDeclared(OutTemplate.match)
    /\ IsMapping(tplRecord)
    /\ OwnGet(tplRecord, sType) = JStr(sIssuePadded)
    /\ tplOut.matches

----------------------------------------------------------------------------
(* Claims about template uploads (SpecUpload) *)

\* the trimmed field paths the renderer receives from registry entry i
RegisteredPaths(i) ==
    {FieldPath(AllFields(EntryTemplate(templates[i]))[j]) :
        j \in 1..Len(AllFields(EntryTemplate(templates[i])))}

\* C11 (as claimed): every field path of every template in the registry
\* conforms to the path grammar, because validateTemplate rejects the others.
C11_Original ==
    \A i \in 1..Len(templates) : \A p \in RegisteredPaths(i) : ConformsToGrammar(p)

----------------------------------------------------------------------------
(* Claims about the record helpers (SpecFn) *)

RECURSIVE MappingsIn(_)
\* the mapping-typed elements of a, in their order
MappingsIn(a) ==
    IF a = <<>> THEN <<>>
    ELSE (IF Head(a).t = "obj" THEN <<Head(a)>> ELSE <<>>) \o MappingsIn(Tail(a))

\* C12 (as claimed): for an array root extractRecords returns exactly the
\* mapping-typed elements of the array in their order (primitives, nulls and
\* nested arrays dropped), with sourcePath "$".
C12_Original ==
    (fnOut.op = "extractRecords" /\ fnIn.t = "arr")
        => /\ fnOut.val.records = MappingsIn(fnIn.a)
           /\ fnOut.val.sourcePath = <<"$">>

\* the container keys in the order the claim lists them; the order among the
\* capitalized variants is the one of the code
ClaimedContainerKeys ==
    << sItemsLower, sResults, sData,
       <<"v", "a", "l", "u", "e">>,
       <<"r", "e", "c", "o", "r", "d", "s">>,
       <<"i", "s", "s", "u", "e", "s">>,
       <<"r", "f", "i", "s">>,
       <<"s", "u", "b", "m", "i", "t", "t", "a", "l", "s">> >>
    \o SubSeq(candidateKeys, 9, 16)

\* positions of the listed keys that hold an array in the mapping m
ArrayHolders(m) ==
    {i \in 1..Len(ClaimedContainerKeys) : OwnGet(m, ClaimedContainerKeys[i]).t = "arr"}

FirstHolder(m) == CHOOSE i \in ArrayHolders(m) : \A j \in ArrayHolders(m) : i <= j

\* C13 (as claimed): for a mapping root the first listed container key whose
\* value is an array wins: the records are that array's mapping elements and
\* sourcePath is "$.<key>"; without such a key the mapping itself is the sole
\* record with sourcePath "$"; a primitive or null root gives no records and
\* sourcePath null.
C13_Original ==
    fnOut.op = "extractRecords" =>
        CASE fnIn.t = "obj" ->
                IF ArrayHolders(fnIn) # {}
                THEN /\ fnOut.val.records =
                            MappingsIn(OwnGet(fnIn, ClaimedContainerKeys[FirstHolder(fnIn)]).a)
                     /\ fnOut.val.sourcePath =
                            <<"$", ".">> \o ClaimedContainerKeys[FirstHolder(fnIn)]
                ELSE /\ fnOut.val.records = <<fnIn>>
                     /\ fnOut.val.sourcePath = <<"$">>
          [] fnIn.t = "arr" -> TRUE
          [] OTHER ->
                /\ fnOut.val.records = <<>>
                /\ fnOut.val.sourcePath = <<>>

\* result is a type other than Generic only for a non-empty list whose records
\* all classify as it, and Generic for an empty list or two records that differ
SharedTypeOrGeneric(recs, result) ==
    /\ result # "Generic" =>
          /\ Len(recs) > 0
          /\ \A i \in 1..Len(recs) : detectRecordTypeFromObject(recs[i]) = result
    /\ (\/ Len(recs) = 0
        \/ \E i, j \in 1..Len(recs) :
              detectRecordTypeFromObject(recs[i]) # detectRecordTypeFromObject(recs[j]))
          => result = "Generic"

\* C14: detectRecordType returns a type T other than Generic only if the
\* extracted record list is non-empty and every extracted record classifies
\* as T; an empty list or two differently classified records give Generic.
C14_SharedTypeOrGeneric ==
    fnOut.op = "detectRecordType" =>
        SharedTypeOrGeneric(extractRecords(fnIn).records, fnOut.val)

\* a document of two RFI records and nothing else was classified as RFI
C14_Witness ==
    /\ fnOut.op = "detectRecordType"
    /\ fnOut.val = "RFI"
    /\ fnIn.t = "arr"
    /\ Len(extractRecords(fnIn).records) = 2

ClaimedHintKeys ==
    << <<"t", "y", "p", "e">>,
       <<"T", "y", "p", "e">>,
       <<"e", "n", "t", "i", "t", "y">>,
       <<"E", "n", "t", "i", "t", "y">>,
       <<"r", "e", "s", "o", "u", "r", "c", "e">>,
       <<"R", "e", "s", "o", "u", "r", "c", "e">>,
       <<"r", "e", "c", "o", "r", "d", "T", "y", "p", "e">>,
       <<"R", "e", "c", "o", "r", "d", "T", "y", "p", "e">> >>

\* the value of the first hint field of obj that holds a string Usable accepts
FirstHint(obj, Usable(_)) ==
    LET at == {i \in 1..Len(ClaimedHintKeys) :
                  /\ OwnGet(obj, ClaimedHintKeys[i]).t = "str"
                  /\ Usable(OwnGet(obj, ClaimedHintKeys[i]).s)}
    IN  IF at = {} THEN <<>>
        ELSE OwnGet(obj, ClaimedHintKeys[CHOOSE i \in at : \A j \in at : i <= j]).s

NonEmptyString(str) == str # <<>>
NonBlankString(str) == \E i \in 1..Len(str) : str[i] \notin Whitespace

\* the type a lower-cased hint names, if any
Marker(hint) ==
    IF Includes(hint, <<"i", "s", "s", "u", "e">>) THEN "Issue"
    ELSE IF hint = <<"r", "f", "i">> \/ Includes(hint, <<"r", "e", "q", "u", "e", "s", "t", " ", "f", "o", "r", " ", "i", "n", "f", "o", "r", "m", "a", "t", "i", "o", "n">>) THEN "RFI"
    ELSE IF Includes(hint, <<"s", "u", "b", "m", "i", "t", "t", "a", "l">>) THEN "Submittal"
    ELSE "none"

\* the shape heuristics over the set of a record's keys, in the order Issue,
\* RFI, Submittal
ShapeType(keys) ==
    IF /\ keys \cap {<<"T", "i", "t", "l", "e">>, <<"t", "i", "t", "l", "e">>} # {}
       /\ keys \cap {<<"S", "t", "a", "t", "u", "s">>, <<"s", "t", "a", "t", "u", "s">>} # {}
       /\ keys \cap {<<"P", "r", "i", "o", "r", "i", "t", "y">>, <<"p", "r", "i", "o", "r", "i", "t", "y">>} # {}
       /\ keys \cap {<<"A", "s", "s", "i", "g", "n", "e", "d", "T", "o">>, <<"a", "s", "s", "i", "g", "n", "e", "d", "T", "o">>, <<"A", "u", "t", "h", "o", "r">>, <<"a", "u", "t", "h", "o", "r">>} # {}
       /\ keys \cap {<<"V", "i", "e", "w", "p", "o", "i", "n", "t", "s">>, <<"v", "i", "e", "w", "p", "o", "i", "n", "t", "s">>, <<"D", "i", "s", "c", "i", "p", "l", "i", "n", "e", "s">>, <<"d", "i", "s", "c", "i", "p", "l", "i", "n", "e", "s">>, <<"H", "i", "s", "t", "o", "r", "y">>, <<"h", "i", "s", "t", "o", "r", "y">>} # {}
    THEN "Issue"
    ELSE IF \/ keys \cap {<<"Q", "u", "e", "s", "t", "i", "o", "n">>, <<"q", "u", "e", "s", "t", "i", "o", "n">>, <<"R", "f", "i", "Q", "u", "e", "s", "t", "i", "o", "n">>, <<"r", "f", "i", "Q", "u", "e", "s", "t", "i", "o", "n">>, <<"A", "n", "s", "w", "e", "r">>, <<"a", "n", "s", "w", "e", "r">>, <<"R", "e", "s", "p", "o", "n", "s", "e">>, <<"r", "e", "s", "p", "o", "n", "s", "e">>} # {}
            \/ /\ keys \cap {<<"B", "a", "l", "l", "I", "n", "C", "o", "u", "r", "t">>, <<"b", "a", "l", "l", "I", "n", "C", "o", "u", "r", "t">>, <<"D", "u", "e", "D", "a", "t", "e">>, <<"d", "u", "e", "D", "a", "t", "e">>} # {}
               /\ keys \cap {<<"R", "f", "i", "N", "u", "m", "b", "e", "r">>, <<"r", "f", "i", "N", "u", "m", "b", "e", "r">>, <<"R", "f", "i", "I", "d">>, <<"r", "f", "i", "I", "d">>} # {}
    THEN "RFI"
    ELSE IF \/ keys \cap {<<"S", "p", "e", "c", "S", "e", "c", "t", "i", "o", "n">>, <<"s", "p", "e", "c", "S", "e", "c", "t", "i", "o", "n">>, <<"S", "p", "e", "c", "i", "f", "i", "c", "a", "t", "i", "o", "n", "S", "e", "c", "t", "i", "o", "n">>, <<"R", "e", "v", "i", "s", "i", "o", "n">>, <<"r", "e", "v", "i", "s", "i", "o", "n">>, <<"R", "e", "v", "i", "s", "i", "o", "n", "N", "u", "m", "b", "e", "r">>, <<"S", "u", "b", "m", "i", "t", "t", "a", "l", "N", "u", "m", "b", "e", "r">>, <<"s", "u", "b", "m", "i", "t", "t", "a", "l", "N", "u", "m", "b", "e", "r">>, <<"S", "u", "b", "m", "i", "t", "t", "a", "l", "I", "d">>, <<"s", "u", "b", "m", "i", "t", "t", "a", "l", "I", "d">>} # {}
            \/ /\ keys \cap {<<"R", "e", "v", "i", "e", "w", "S", "t", "a", "t", "u", "s">>, <<"r", "e", "v", "i", "e", "w", "S", "t", "a", "t", "u", "s">>, <<"R", "e", "v", "i", "e", "w", "D", "a", "t", "e">>, <<"r", "e", "v", "i", "e", "w", "D", "a", "t", "e">>} # {}
               /\ keys \cap {<<"D", "u", "e", "D", "a", "t", "e">>, <<"d", "u", "e", "D", "a", "t", "e">>} # {}
    THEN "Submittal"
    ELSE "Generic"

\* a hint that names a type wins, otherwise the shape decides
ClaimedType(hint, keys) ==
    IF Marker(hint) # "none" THEN Marker(hint) ELSE ShapeType(keys)

Consumed(k) ==
    templateUploads' =
        IF Len(templateUploads[k]) > 1
        THEN [templateUploads EXCEPT ![k] = Tail(@)]
        ELSE Remove(templateUploads, k)

\* the registry and the selection after the candidate src was handled
CandidateOutcome(src) ==
    IF CandidateParse(src) # JThrow /\ validateTemplate(CandidateParse(src)).ok
    THEN /\ Len(templates') = Len(templates) + 1
         /\ SubSeq(templates', 1, Len(templates)) = templates
         /\ templates'[Len(templates')].src = src
         /\ activeTemplateId' \in {activeTemplateId, templates'[Len(templates')].id}
    ELSE /\ templates' = templates
         /\ activeTemplateId' = activeTemplateId

\* C16: a candidate that fails to parse or fails validateTemplate is not added,
\* the registered templates keep their id, content and position and the
\* selection is unchanged; a valid candidate of the batch is still registered.
C16_RejectedCandidateLeavesSession ==
    [][\A k \in 1..Len(templateUploads) :
          Consumed(k) => CandidateOutcome(Head(templateUploads[k]))]_vars

\* one batch of two files was handled: one was rejected, the other registered
C16_Witness ==
    /\ events = 3
    /\ templateUploads = <<>>
    /\ Len(consoleWarnings) = 1
    /\ Len(templates) = 1
    /\ ~validateTemplate(CandidateParse(consoleWarnings[1])).ok

----------------------------------------------------------------------------
(* Claims about broken files (SpecIngest) *)

\* the file's text is empty or is not valid JSON
IsBrokenDoc(name) == DocParse(name).empty \/ ~DocParse(name).ok

\* C17: a file whose text is empty or not valid JSON is added with an error,
\* json = null and recordType Generic; and while a file carrying an error is
\* the active one, the viewer shows the error card or, with the raw toggle on,
\* the raw text, never a record view or a dataset view.
C17_BrokenFileShownAsErrorOrRaw ==
    /\ \A i \in 1..Len(files) :
          IsBrokenDoc(files[i].name) =>
              /\ files[i].error
              /\ files[i].recordType = "Generic"
              /\ FileJson(files[i]) = JNull
    /\ (getActiveFile(Cur) # 0 /\ files[getActiveFile(Cur)].error) =>
          /\ view.kind = (IF showRaw THEN "raw" ELSE "error")
          /\ view.out = NoView
          /\ ~view.datasetMode

\* the empty file is the active one, the user asked for the dataset view, and
\* the error card is shown
C17_Witness ==
    /\ getActiveFile(Cur) # 0
    /\ files[getActiveFile(Cur)].name = "empty.json"
    /\ files[getActiveFile(Cur)].error
    /\ Get(viewModeByFileId, files[getActiveFile(Cur)].id, "auto") = "dataset"
    /\ view.kind = "error"

----------------------------------------------------------------------------
(* Claims about the dataset view (SpecDataset) *)

\* n brought into lo..hi
Within(n, lo, hi) == IF n < lo THEN lo ELSE IF n > hi THEN hi ELSE n

\* this step is Go (or Enter) on a row box that holds a number
GoOnNumber ==
    /\ runDatasetGo
    /\ Trim(els.datasetJump) # <<>>
    /\ JsNumber(Trim(els.datasetJump)).t = "num"

\* the row shown for the request req (a number and its text) is the request
\* clamped into 1..length, and a clamped request is explained by the note
\* naming the request
RowShownFor(req, label, shown) ==
    /\ shown.kind = "datasetRow"
    /\ shown.row \in 1..shown.of
    /\ shown.row = Within(req, 1, shown.of)
    /\ shown.row # req => (shown.jumpNote /\ shown.requestedLabel = label)

\* C18 (as claimed): for every requested 1-based row (zero, negative and too
\* large ones included) the displayed row is the request clamped into
\* 1..length, and whenever the request was clamped the view shows the
\* out-of-range note containing the requested value.
C18_Original ==
    [][(GoOnNumber /\ view'.kind = "dataset")
          => RowShownFor(JsNumber(Trim(els.datasetJump)).n, Trim(els.datasetJump),
                         view'.out)]_vars

\* the dataset entry of file id, a fresh one when there is none
EntryOf(map, id) == Get(map, id, NewDatasetEntry)

\* this step is one of the three ways out of jump mode
LeavesJumpMode ==
    \/ \E v \in FilterEdits : TypeFilter(v)
    \/ DatasetReset
    \/ runDatasetGo /\ Trim(els.datasetJump) = <<>>

\* C19: while the active file's jumpIndex is set the dataset view shows one
\* row and no filtered list, whatever the filter is, and it shows the filtered
\* list while jumpIndex is null; Go on an empty row box, an edit of the filter
\* and Reset set jumpIndex to null and render the filtered list; only Go on a
\* non-empty row box sets a jumpIndex that was null.
C19_JumpModeShowsOneRow ==
    [][/\ (getActiveFile(Cur)' # 0 /\ view'.kind = "dataset") =>
             view'.out.kind = (IF ActiveDatasetEntry'.jumpIndex.t = "num"
                               THEN "datasetRow" ELSE "datasetList")
       /\ LeavesJumpMode =>
             /\ ActiveDatasetEntry'.jumpIndex = JNull
             /\ view'.kind = "dataset" => view'.out.kind = "datasetList"
       /\ \A id \in DOMAIN datasetUiByFileId' :
             (EntryOf(datasetUiByFileId, id).jumpIndex = JNull
                  /\ EntryOf(datasetUiByFileId', id).jumpIndex # JNull)
                 => (runDatasetGo /\ Trim(els.datasetJump) # <<>>)]_vars

\* a row is shown alone although the filter is set and matches no row
C19_Witness ==
    /\ getActiveFile(Cur) # 0
    /\ view.kind = "dataset"
    /\ view.out.kind = "datasetRow"
    /\ ActiveDatasetEntry.jumpIndex.t = "num"
    /\ ActiveDatasetEntry.filter = sZZ

\* the first up-to-n elements of a sequence
FirstUpTo(seq, n) == SubSeq(seq, 1, IF Len(seq) < n THEN Len(seq) ELSE n)

\* the keys observed in the sample, and its fields as (item, position) pairs
ObservedKeys(sample) == UNION {KeysOf(sample[i]) : i \in 1..Len(sample)}
SampledFields(sample) ==
    UNION {{<<i, j>> : j \in 1..Len(sample[i].o)} : i \in 1..Len(sample)}

\* the keys that occur in at least 60% of the sampled items
CommonKeys(sample, keys) ==
    {k \in keys :
        10 * Cardinality({i \in 1..Len(sample) : k \in KeysOf(sample[i])})
            >= 6 * Len(sample)}

\* the fields whose value is an object or an array
NestedFields(sample, fields) ==
    {f \in fields : sample[f[1]].o[f[2]].v.t \in {"obj", "arr"}}

\* at least 10 sampled items, at least a quarter of the observed keys common,
\* at most a quarter of the fields nested
ClaimedSampleVerdict(sample, keys, fields) ==
    /\ Len(sample) >= 10
    /\ keys # {}
    /\ 4 * Cardinality(CommonKeys(sample, keys)) >= Cardinality(keys)
    /\ 4 * Cardinality(NestedFields(sample, fields)) <= Cardinality(fields)

ClaimedDataset(sample) ==
    ClaimedSampleVerdict(sample, ObservedKeys(sample), SampledFields(sample))

\* C20: isLargeFlatArrayDataset is true exactly when the input is an array of
\* at least 80 elements, its first up-to-25 mapping elements number at least
\* 10, at least 25% of the observed keys occur in at least 60% of the sampled
\* items, and at most 25% of the sampled fields hold an object or an array.
C20_DatasetExactlyWhenLargeAndFlat ==
    fnOut.op = "isLargeFlatArrayDataset" =>
        (fnOut.val <=> /\ fnIn.t = "arr"
                       /\ Len(fnIn.a) >= 80
                       /\ ClaimedDataset(FirstUpTo(MappingsIn(fnIn.a), 25)))

\* an array of exactly 80 elements, 10 of them mappings on the 25% marks, was
\* detected as a dataset
C20_Witness ==
    /\ fnOut.op = "isLargeFlatArrayDataset"
    /\ fnOut.val
    /\ Len(fnIn.a) = 80
    /\ Len(MappingsIn(fnIn.a)) = 10
    /\ 4 * Cardinality(NestedFields(MappingsIn(fnIn.a), SampledFields(MappingsIn(fnIn.a))))
           = Cardinality(SampledFields(MappingsIn(fnIn.a)))
----------------------------------------------------------------------------
(* Claims about the mode selector (Spec) *)

\* the active file, and the mode a modeSelect change has just stored for it
ActiveFile == files[getActiveFile(Cur)]
ChosenMode == viewModeByFileId'[ActiveFile.id]

\* the kind of view the heuristic alone asks for
HeuristicKind(lf) ==
    IF DocFacts[lf.name].autoDataset THEN "dataset" ELSE "record"

\* the kind of view the selector asks for
SelectorKind(mode, lf) ==
    IF mode = "dataset" THEN "dataset"
    ELSE IF mode = "records" THEN "record"
    ELSE HeuristicKind(lf)

----------------------------------------------------------------------------
(* Sessions with overlapping loads: files are dropped while an earlier     *)
(* addFiles is still reading, files are clicked and Clear all is used      *)

MaxLoadFiles == 3
MaxLoadEvents == 6

LoadDocs == {"pair.json", "bad.json"}

LoadStart ==
    \E names \in Batches(LoadDocs, MaxLoadFiles - Len(files) - PendingFiles) :
        StartFiles(names)

LoadTick ==
    /\ events < MaxLoadEvents
    /\ events' = events + 1
    /\ UNCHANGED <<pathVars, tplVars, fnVars>>

NextLoad ==
    \/ LoadStart /\ LoadTick
    \/ AddFilesResume /\ LoadTick
    \/ FileItemClick /\ LoadTick
    \/ ClearAll /\ LoadTick

SpecLoad == Init /\ [][NextLoad]_vars

----------------------------------------------------------------------------
(* Claims about overlapping loads (SpecLoad) *)

\* C27 (as claimed): every loaded file has an id distinct from the id of
\* every other file in state.files, after any sequence and interleaving of
\* addFiles calls and clearAll.
C27_Original ==
    \A i, j \in 1..Len(files) : i # j => files[i].id # files[j].id

\* the ids of the files in state.files
LoadedIds(fs) == {fs[i].id : i \in 1..Len(fs)}

\* an addFiles call returns in this step
AddFilesCompletes ==
    /\ AddFilesResume
    /\ Len(addFilesCalls') < Len(addFilesCalls)

\* the call of addFiles that returns in this step
CompletedCall ==
    addFilesCalls[CHOOSE k \in 1..Len(addFilesCalls) :
                      /\ addFilesCalls[k].done + 1 = Len(addFilesCalls[k].names)
                      /\ addFilesCalls' = Remove(addFilesCalls, k)]

\* the id addFiles gave the newest file of the batch that parsed, else the
\* id of its newest file
NewestGoodOrAny(call) ==
    LET good == {j \in 1..Len(call.names) : DocParse(call.names[j]).ok}
    IN  call.startId - 1 + (IF good # {} THEN MaxOf(good) ELSE Len(call.names))

\* C28 (as claimed): after any interleaving of addFiles, file selection and
\* clearAll, state.activeFileId is null or the id of a file in state.files;
\* and when an addFiles call completes with state.files non-empty,
\* getActiveFile() is one of the loaded files: the newest successfully
\* parsed file of that batch, else its newest file.
C28_Original ==
    /\ [](activeFileId = NoFileId \/ activeFileId \in LoadedIds(files))
    /\ [][AddFilesCompletes =>
              /\ activeFileId' \in LoadedIds(files')
              /\ activeFileId' = NewestGoodOrAny(CompletedCall)]_vars
----------------------------------------------------------------------------
(* Sessions with the record picker: the file of rows is loaded, a row is   *)
(* requested in the dataset view, the mode select and the record picker    *)
(* are used and the file is clicked                                        *)

MaxPickerFiles == 1
MaxPickerEvents == 6

PickerDocs == {"rows.json", "pair.json"}
PickerRows == {<<>>, <<"2">>, <<"3">>}

PickerStart ==
    \E names \in Batches(PickerDocs, MaxPickerFiles - Len(files) - PendingFiles) :
        StartFiles(names)

PickerTypeJump == \E v \in PickerRows : TypeJump(v)

PickerTick ==
    /\ events < MaxPickerEvents
    /\ events' = events + 1
    /\ UNCHANGED <<pathVars, tplVars, fnVars>>

NextPicker ==
    \/ PickerStart /\ PickerTick
    \/ AddFilesResume /\ PickerTick
    \/ FileItemClick /\ PickerTick
    \/ ModeSelectChange /\ PickerTick
    \/ PickerTypeJump /\ PickerTick
    \/ runDatasetGo /\ PickerTick
    \/ DatasetReset /\ PickerTick
    \/ RecordSelectChange /\ PickerTick

SpecPicker == Init /\ [][NextPicker]_vars

----------------------------------------------------------------------------
(* Claims about the record picker (SpecPicker) *)

\* the record view of record rec of file lf under the current registry
RecordViewOf(lf, rec) ==
    renderRecordView(lf.recordType, rec,
                     TemplateObjOf(templates,
                                   getTemplateForRecord(templates, activeTemplateId, rec)))

\* C29 (as claimed): in records mode for a document with more than one
\* record, after the user picks record index i in the record picker, the
\* record rendered in the viewer is records[i], the one the picker shows as
\* selected, whatever mode switches, dataset filter/jump actions and file
\* selections came before.
C29_Original ==
    [][\A i \in 0..MaxPick :
          (/\ PickRecord(i)
           /\ view.kind = "record"
           /\ Len(DocFacts[ActiveFile.name].records) > 1) =>
              /\ view'.kind = "record"
              /\ view'.out = RecordViewOf(ActiveFile,
                                          DocFacts[ActiveFile.name].records[i + 1])]_vars
----------------------------------------------------------------------------
(* renderKvListValue on its own: one call on an array of items under the   *)
(* options of one kvlist field                                             *)

MaxKvItems == 3

sV == <<"v">>
sDash == <<"-">>
sShowEmpty == <<"s", "h", "o", "w", "E", "m", "p", "t", "y">>
sEmptyText == <<"e", "m", "p", "t", "y", "T", "e", "x", "t">>
sEmptyParens == <<"(", "e", "m", "p", "t", "y", ")">>

\* items of a kvlist array: with a text value, with a blank one, without a
\* label, with predefined values, with the keys of a custom field, a number
KvListItems ==
    { JObj(<<KV(sName, JStr(sA)), KV(sTextValue, JStr(sW))>>),
      JObj(<<KV(sName, JStr(sB)), KV(sTextValue, JStr(sBlank))>>),
      JObj(<<KV(sTextValue, JStr(sW))>>),
      JObj(<<KV(sName, JStr(sC)),
             KV(sPredefinedValues, JArr(<<JObj(<<KV(sName, JStr(sZZ))>>)>>))>>),
      JObj(<<KV(sK, JStr(sD)), KV(sV, JNum(7)), KV(sName, JStr(sE))>>),
      JNum(7) }

\* seven labelled items, one more than the default maxItems
KvListLong ==
    JArr([i \in 1..(DefaultMaxItems + 1) |->
             JObj(<<KV(sName, JStr(IntToStr(i))), KV(sTextValue, JStr(sW))>>)])

KvListValues ==
    {JArr(a) : a \in UNION {[1..n -> KvListItems] : n \in 0..MaxKvItems}}
        \cup {KvListLong, JNull, JStr(sW)}

\* the options of a kvlist field as the template file gives them
KvCfg(itemKeyPath, valuePaths, maxItems, showEmpty, emptyText) ==
    [itemKeyPath |-> itemKeyPath, valuePaths |-> valuePaths,
     maxItems |-> maxItems, showEmpty |-> showEmpty, emptyText |-> emptyText]

KvListCfgs ==
    { KvCfg(JUndef, JUndef, JUndef, JUndef, JUndef),
      KvCfg(JUndef, JUndef, JUndef, JBool(TRUE), JUndef),
      KvCfg(JUndef, JUndef, JUndef, JBool(TRUE), JStr(sDash)),
      KvCfg(JUndef, JUndef, JNum(1), JUndef, JUndef),
      KvCfg(JUndef, JUndef, JNum(2), JBool(TRUE), JUndef),
      KvCfg(JStr(sK), JArr(<<JStr(sV), JStr(sTextValue)>>), JUndef, JBool(FALSE), JUndef) }

InitKvList ==
    /\ fnIn \in [items : KvListValues, cfg : KvListCfgs]
    /\ fnOut = [op |-> "none"]
    /\ PathIdle
    /\ TemplateIdle
    /\ ViewerIdle

\* a caller evaluates renderKvListValue(fnIn.items, fnIn.cfg)
RenderKvListValue ==
    /\ fnOut.op = "none"
    /\ fnOut' = [op |-> "renderKvListValue",
                 rows |-> renderKvListValue(fnIn.items, fnIn.cfg)]
    /\ UNCHANGED fnIn
    /\ UNCHANGED <<pathVars, registryVars, tplVars, viewerVars>>

NextKvList == RenderKvListValue

SpecKvList == InitKvList /\ [][NextKvList]_vars

----------------------------------------------------------------------------
(* Claims about kvlist shaping (SpecKvList) *)

\* the text shown for an item without a resolved value
ClaimedEmptyText(cfg) ==
    IF cfg.emptyText.t = "str" /\ Trim(cfg.emptyText.s) # <<>>
    THEN Trim(cfg.emptyText.s)
    ELSE sEmptyParens

\* the row of a labelled item: its first non-empty value, or emptyText when
\* showEmpty is set, or no row
ClaimedKvRowOf(cfg, label, val) ==
    IF ~IsNullish(val) /\ Trim(JsString(val)) # <<>>
    THEN <<[k |-> label, v |-> JsString(val)]>>
    ELSE IF Truthy(cfg.showEmpty)
    THEN <<[k |-> label, v |-> ClaimedEmptyText(cfg)]>>
    ELSE <<>>

\* no row for an item that is not a mapping or has no usable label
ClaimedKvRow(item, cfg) ==
    IF ~IsMapping(item) THEN <<>>
    ELSE IF KvKey(getValueAtPath(item, KvItemKeyPath(cfg))) = <<>> THEN <<>>
    ELSE ClaimedKvRowOf(cfg, KvKey(getValueAtPath(item, KvItemKeyPath(cfg))),
                        KvFirstValue(item, KvValuePaths(cfg)))

RECURSIVE ClaimedKvAll(_, _, _)
ClaimedKvAll(items, cfg, i) ==
    IF i > Len(items) THEN <<>>
    ELSE ClaimedKvRow(items[i], cfg) \o ClaimedKvAll(items, cfg, i + 1)

ClaimedKvList(arrValue, cfg) ==
    IF arrValue.t # "arr" THEN <<>>
    ELSE FirstUpTo(ClaimedKvAll(arrValue.a, cfg, 1), KvMaxItems(cfg))

\* C25 (as claimed): for an array of mapping items, items without a usable
\* label (itemKeyPath, default Name) are skipped, the value is the first
\* non-empty result over valuePaths in order, at most maxItems (default 6)
\* rows are produced, and when showEmpty is true an item with a label but no
\* resolved value is a row showing emptyText (default "(empty)") instead of
\* being dropped.
C25_Original ==
    fnOut.op = "renderKvListValue" =>
        fnOut.rows = ClaimedKvList(fnIn.items, fnIn.cfg)
----------------------------------------------------------------------------
(* stripJsoncComments on its own: one call on one text.  The text is a     *)
(* sequence of characters; input[i] past the end is undefined.             *)

\* input[i], with i counted from 1; "" stands for undefined
CharAt(input, i) == IF i <= Len(input) THEN input[i] ELSE ""

\* no character escapes the next one
IsBackslash_Never(c) == FALSE

\* c === '\\'
IsBackslash(c) == c = "\\"

\* while (i < input.length && input[i] !== '\n') i++
RECURSIVE SkipLineComment(_, _)
SkipLineComment(input, i) ==
    IF i <= Len(input) /\ input[i] # "\n" THEN SkipLineComment(input, i + 1)
    ELSE i

\* the inner loop of the block comment: past the closing */ or to the end
RECURSIVE SkipBlockComment(_, _)
SkipBlockComment(input, i) ==
    IF i > Len(input) THEN i
    ELSE IF input[i] = "*" /\ CharAt(input, i + 1) = "/" THEN i + 2
    ELSE SkipBlockComment(input, i + 1)

\* the outer loop, from position i with the flags and the output so far
RECURSIVE StripFrom(_, _, _, _, _, _)
StripFrom(input, i, inString, stringQuote, escaped, out) ==
    IF i > Len(input) THEN out
    ELSE IF inString
    THEN StripFrom(input, i + 1,
                   ~(~escaped /\ ~IsBackslash(input[i]) /\ input[i] = stringQuote),
                   stringQuote,
                   ~escaped /\ IsBackslash(input[i]),
                   Append(out, input[i]))
    ELSE IF input[i] \in {"\"", "'"}
    THEN StripFrom(input, i + 1, TRUE, input[i], escaped, Append(out, input[i]))
    ELSE IF input[i] = "/" /\ CharAt(input, i + 1) = "/"
    THEN StripFrom(input, SkipLineComment(input, i + 2), inString, stringQuote,
                   escaped, out)
    ELSE IF input[i] = "/" /\ CharAt(input, i + 1) = "*"
    THEN StripFrom(input, SkipBlockComment(input, i + 2), inString, stringQuote,
                   escaped, out)
    ELSE StripFrom(input, i + 1, inString, stringQuote, escaped,
                   Append(out, input[i]))

stripJsoncComments(input) == StripFrom(input, 1, FALSE, "\"", FALSE, <<>>)

MaxJsoncLen == 5

JsoncAlphabet == {"\"", "'", "\\", "/", "*", "\n", "a"}

\* "/*" /*a*/ a //a
\* a
jsoncMixed ==
    <<"\"", "/", "*", "\"", "/", "*", "a", "*", "/", "a", "/", "/", "a", "\n", "a">>
\* "a\"//" //"
jsoncEscaped ==
    <<"\"", "a", "\\", "\"", "/", "/", "\"", "/", "/", "\"">>
\* a/*a"*/"a"/*a
jsoncOpenBlock ==
    <<"a", "/", "*", "a", "\"", "*", "/", "\"", "a", "\"", "/", "*", "a">>

JsoncTexts ==
    UNION {[1..n -> JsoncAlphabet] : n \in 0..MaxJsoncLen}
        \cup {jsoncMixed, jsoncEscaped, jsoncOpenBlock}

InitJsonc ==
    /\ fnIn \in JsoncTexts
    /\ fnOut = [op |-> "none"]
    /\ PathIdle
    /\ TemplateIdle
    /\ ViewerIdle

\* a caller evaluates stripJsoncComments(fnIn)
StripJsoncComments ==
    /\ fnOut.op = "none"
    /\ fnOut' = [op |-> "stripJsoncComments", out |-> stripJsoncComments(fnIn)]
    /\ UNCHANGED fnIn
    /\ UNCHANGED <<pathVars, registryVars, tplVars, viewerVars>>

NextJsonc == StripJsoncComments

SpecJsonc == InitJsonc /\ [][NextJsonc]_vars

----------------------------------------------------------------------------
(* Claims about comment stripping (SpecJsonc) *)

\* how many backslashes stand directly before position j, not counting
\* positions up to lo
RECURSIVE BackslashRun(_, _, _)
BackslashRun(s, j, lo) ==
    IF j - 1 > lo /\ s[j - 1] = "\\" THEN 1 + BackslashRun(s, j - 1, lo) ELSE 0

\* positions after the opening quote s[1] that hold the same quote, not escaped
ClosingQuotes(s) ==
    {j \in 2..Len(s) : s[j] = s[1] /\ BackslashRun(s, j, 1) % 2 = 0}

\* length of the string literal that s starts with: up to its closing quote,
\* or all of s when it is not closed
LiteralLen(s) ==
    IF ClosingQuotes(s) = {} THEN Len(s)
    ELSE CHOOSE j \in ClosingQuotes(s) : \A k \in ClosingQuotes(s) : j <= k

\* length of the line comment that s starts with: up to, not including, the
\* newline
LineCommentLen(s) ==
    IF \E j \in 1..Len(s) : s[j] = "\n"
    THEN (CHOOSE j \in 1..Len(s) : s[j] = "\n" /\ \A k \in 1..(j - 1) : s[k] # "\n") - 1
    ELSE Len(s)

\* positions where a block comment that s starts with is closed
BlockEnds(s) == {j \in 4..Len(s) : s[j - 1] = "*" /\ s[j] = "/"}

\* length of the block comment that s starts with: through its closing */, or
\* all of s when it is not terminated
BlockCommentLen(s) ==
    IF BlockEnds(s) = {} THEN Len(s)
    ELSE CHOOSE j \in BlockEnds(s) : \A k \in BlockEnds(s) : j <= k

Drop(s, n) == SubSeq(s, n + 1, Len(s))

\* the text with its comments removed: literals whole, comments dropped,
\* every other character kept
RECURSIVE WithoutComments(_)
WithoutComments(s) ==
    IF s = <<>> THEN <<>>
    ELSE IF s[1] \in {"\"", "'"}
    THEN SubSeq(s, 1, LiteralLen(s)) \o WithoutComments(Drop(s, LiteralLen(s)))
    ELSE IF Len(s) >= 2 /\ s[1] = "/" /\ s[2] = "/"
    THEN WithoutComments(Drop(s, LineCommentLen(s)))
    ELSE IF Len(s) >= 2 /\ s[1] = "/" /\ s[2] = "*"
    THEN WithoutComments(Drop(s, BlockCommentLen(s)))
    ELSE <<s[1]>> \o WithoutComments(Tail(s))

\* the text holds no comment opener at all
NoCommentOpener(s) ==
    \A j \in 1..(Len(s) - 1) : ~(s[j] = "/" /\ s[j + 1] \in {"/", "*"})

\* C26: stripJsoncComments copies every character of a string literal
\* (opened by a quote, closed by the same quote unescaped; comment openers
\* and escaped quotes inside it included) unchanged, removes every //
\* comment up to, not including, the newline and every /* */ comment outside
\* a string, removes an unterminated block comment to the end of the input,
\* and copies all other characters in order; for input without comments the
\* output equals the input.
C26_StripsCommentsOutsideStrings ==
    fnOut.op = "stripJsoncComments" =>
        /\ fnOut.out = WithoutComments(fnIn)
        /\ NoCommentOpener(fnIn) => fnOut.out = fnIn

\* a literal holding a comment opener and an escaped quote was copied, and a
\* line comment and a block comment after it were removed
C26_Witness ==
    /\ fnOut.op = "stripJsoncComments"
    /\ fnIn \in {jsoncMixed, jsoncEscaped}
    /\ fnOut.out # fnIn
    /\ \E j \in 1..(Len(fnOut.out) - 1) :
          fnOut.out[j] = "/" /\ fnOut.out[j + 1] \in {"/", "*"}
----------------------------------------------------------------------------
(* Claims about hits and rows (SpecTemplate) *)

\* C30 (as claimed): whenever renderTemplateRecordView is applied to a
\* record and countTemplateFieldHits is above 0, the view is the section
\* layout and at least one declared field renders a row, so the view never
\* consists only of empty "Nothing here." sections.
C30_Original ==
    (tplOut.op = "render" /\ HitsOf(tplOut.tpl) > 0) =>
        /\ tplOut.view.kind = "sections"
        /\ \E i \in 1..Len(tplOut.view.sections) :
              tplOut.view.sections[i].rows # <<>>
----------------------------------------------------------------------------
(* The record view as the tree the browser builds from the markup.          *)
(* A text node holds the characters it shows: escapeHtml followed by the     *)
(* parser gives the original characters back. An element has its tag, its    *)
(* class list, the data attributes it carries ("data-open" stands for        *)
(* data-open="true"), whether its style is display:none, and its children.   *)
(* The whitespace-only text nodes between the elements of a card are left    *)
(* out: no step reads or changes them. state.showPaths is off, so no row     *)
(* carries a path hint.                                                      *)

TextNode(s) == [node |-> "text", text |-> s]

Element(tag, cls, attrs, hidden, kids) ==
    [node |-> "el", tag |-> tag, cls |-> cls, attrs |-> attrs,
     hidden |-> hidden, kids |-> kids]

\* the children the parser builds for escaped text
TextKids(s) == IF s = <<>> THEN <<>> ELSE <<TextNode(s)>>

\* U+2022 and U+2026, each one character
Bullet == "<U+2022>"
Ellipsis == "<U+2026>"

sExpandObject ==
    <<"E", "x", "p", "a", "n", "d", " ", "o", "b", "j", "e", "c", "t", " ",
      "(">>
sCollapseObject ==
    <<"C", "o", "l", "l", "a", "p", "s", "e", " ", "o", "b", "j", "e", "c",
      "t", " ", "(">>
sKeysClose == <<" ", "k", "e", "y", "s", ")">>
sPreview == <<"P", "r", "e", "v", "i", "e", "w", ":", " ">>
sNoSimpleFields ==
    <<"(", "n", "o", " ", "s", "i", "m", "p", "l", "e", " ", "f", "i", "e",
      "l", "d", "s", ")">>
sNested == <<" ", "N", "e", "s", "t", "e", "d", ":", " ">>
sObjCount == <<"o", "b", "j", ":", " ">>
sArrCount == <<"a", "r", "r", ":", " ">>
sColonSpace == <<":", " ">>
sCommaSpace == <<",", " ">>
sObjectWord == <<"O", "b", "j", "e", "c", "t">>
sArrayOpen == <<"A", "r", "r", "a", "y", "(">>
sNoKeys == <<"(", "n", "o", " ", "k", "e", "y", "s", ")">>
sNothingHere ==
    <<"N", "o", "t", "h", "i", "n", "g", " ", "h", "e", "r", "e", ".">>
sSectionNumber == <<"S", "e", "c", "t", "i", "o", "n", " ">>
sHttp == <<"h", "t", "t", "p", ":", "/", "/">>
sHttps == <<"h", "t", "t", "p", "s", ":", "/", "/">>
sUrlLower == <<"u", "r", "l">>

\* the keys pickPreviewPairs tries first, in this order
PreviewPreferred ==
    << <<"T", "i", "t", "l", "e">>,
       <<"t", "i", "t", "l", "e">>,
       <<"N", "a", "m", "e">>,
       <<"n", "a", "m", "e">>,
       <<"S", "u", "b", "j", "e", "c", "t">>,
       <<"s", "u", "b", "j", "e", "c", "t">>,
       <<"N", "u", "m", "b", "e", "r">>,
       <<"n", "u", "m", "b", "e", "r">>,
       <<"I", "d">>,
       <<"i", "d">>,
       <<"S", "t", "a", "t", "u", "s">>,
       <<"s", "t", "a", "t", "u", "s">>,
       <<"T", "y", "p", "e">>,
       <<"t", "y", "p", "e">> >>

\* the keys renderObjectAsKv puts first
KvPreferred ==
    << <<"I", "d">>,
       <<"i", "d">>,
       <<"N", "u", "m", "b", "e", "r">>,
       <<"n", "u", "m", "b", "e", "r">>,
       <<"T", "i", "t", "l", "e">>,
       <<"t", "i", "t", "l", "e">>,
       <<"N", "a", "m", "e">>,
       <<"n", "a", "m", "e">>,
       <<"S", "u", "b", "j", "e", "c", "t">>,
       <<"s", "u", "b", "j", "e", "c", "t">>,
       <<"S", "t", "a", "t", "u", "s">>,
       <<"s", "t", "a", "t", "u", "s">>,
       <<"T", "y", "p", "e">>,
       <<"t", "y", "p", "e">>,
       <<"P", "r", "i", "o", "r", "i", "t", "y">>,
       <<"p", "r", "i", "o", "r", "i", "t", "y">>,
       <<"C", "r", "e", "a", "t", "i", "o", "n", "D", "a", "t", "e">>,
       <<"c", "r", "e", "a", "t", "i", "o", "n", "D", "a", "t", "e">>,
       <<"L", "a", "s", "t", "M", "o", "d", "i", "f", "i", "c", "a", "t", "i", "o", "n", "D", "a", "t", "e">>,
       <<"l", "a", "s", "t", "M", "o", "d", "i", "f", "i", "c", "a", "t", "i", "o", "n", "D", "a", "t", "e">>,
       <<"D", "u", "e", "D", "a", "t", "e">>,
       <<"d", "u", "e", "D", "a", "t", "e">>,
       <<"U", "r", "l">>,
       <<"u", "r", "l">>,
       <<"V", "i", "e", "w", "e", "r", "U", "r", "l">>,
       <<"v", "i", "e", "w", "e", "r", "U", "r", "l">> >>

\* how many pairs a preview shows, and where simplePreviewValue cuts a string
PreviewPairs == 3
PreviewMaxChars == 40

\* /^https?:\/\/\S+/i
looksLikeUrl(s) ==
    \/ /\ Len(s) > Len(sHttp)
       /\ ToLowerCase(SubSeq(s, 1, Len(sHttp))) = sHttp
       /\ s[Len(sHttp) + 1] \notin Whitespace
    \/ /\ Len(s) > Len(sHttps)
       /\ ToLowerCase(SubSeq(s, 1, Len(sHttps))) = sHttps
       /\ s[Len(sHttps) + 1] \notin Whitespace

\* null for a value the preview skips, else the short text of the value
simplePreviewValue(v) ==
    CASE IsNullish(v) -> JStr(sNull)
      [] v.t = "str" ->
            IF Trim(v.s) = <<>> THEN JNull
            ELSE IF Len(Trim(v.s)) > PreviewMaxChars
            THEN JStr(SubSeq(Trim(v.s), 1, PreviewMaxChars) \o <<Ellipsis>>)
            ELSE JStr(Trim(v.s))
      [] v.t \in {"num", "bool"} -> JStr(JsString(v))
      [] v.t = "arr" -> JStr(sArrayOpen \o NatToStr(Len(v.a)) \o <<")">>)
      [] v.t = "obj" -> JStr(sObjectWord)

\* the first loop of pickPreviewPairs, from preferred[i]
RECURSIVE PreferredPairs(_, _, _, _)
PreferredPairs(obj, maxPairs, i, acc) ==
    IF i > Len(PreviewPreferred) \/ Len(acc.out) >= maxPairs THEN acc
    ELSE IF ~HasOwn(obj, PreviewPreferred[i])
    THEN PreferredPairs(obj, maxPairs, i + 1, acc)
    ELSE IF simplePreviewValue(OwnGet(obj, PreviewPreferred[i])) = JNull
    THEN PreferredPairs(obj, maxPairs, i + 1, acc)
    ELSE PreferredPairs(obj, maxPairs, i + 1,
            [out |-> Append(acc.out,
                            KV(PreviewPreferred[i],
                               simplePreviewValue(OwnGet(obj, PreviewPreferred[i])).s)),
             used |-> acc.used \cup {PreviewPreferred[i]}])

\* the second loop of pickPreviewPairs, from the i-th key of the object
RECURSIVE RemainingPairs(_, _, _, _)
RemainingPairs(obj, maxPairs, i, acc) ==
    IF i > Len(obj.o) \/ Len(acc.out) >= maxPairs THEN acc
    ELSE IF obj.o[i].k \in acc.used
    THEN RemainingPairs(obj, maxPairs, i + 1, acc)
    ELSE IF simplePreviewValue(obj.o[i].v) = JNull
    THEN RemainingPairs(obj, maxPairs, i + 1, acc)
    ELSE RemainingPairs(obj, maxPairs, i + 1,
            [acc EXCEPT !.out = Append(@, KV(obj.o[i].k,
                                             simplePreviewValue(obj.o[i].v).s))])

\* the [key, text] pairs of the preview of a mapping
pickPreviewPairs(obj, maxPairs) ==
    IF ~IsMapping(obj) THEN <<>>
    ELSE RemainingPairs(obj, maxPairs, 1,
            PreferredPairs(obj, maxPairs, 1, [out |-> <<>>, used |-> {}])).out

countNestedTopLevel(obj) ==
    [arrays |-> Cardinality({i \in 1..Len(obj.o) : obj.o[i].v.t = "arr"}),
     objects |-> Cardinality({i \in 1..Len(obj.o) : obj.o[i].v.t = "obj"})]

\* the preview text of a mapping
buildObjectPreview(obj, maxPairs) ==
    LET pairs == pickPreviewPairs(obj, maxPairs)
        nested == countNestedTopLevel(obj)
        pairText ==
            IF pairs # <<>>
            THEN JoinWith([i \in 1..Len(pairs) |->
                              pairs[i].k \o sColonSpace \o pairs[i].v],
                          sCommaSpace)
            ELSE sNoSimpleFields
        objBits == IF nested.objects # 0
                   THEN <<sObjCount \o NatToStr(nested.objects)>> ELSE <<>>
        arrBits == IF nested.arrays # 0
                   THEN <<sArrCount \o NatToStr(nested.arrays)>> ELSE <<>>
        nestedBits == objBits \o arrBits
        nestedText ==
            IF nestedBits # <<>>
            THEN <<" ", Bullet>> \o sNested \o JoinWith(nestedBits, sCommaSpace)
            ELSE <<>>
    IN  pairText \o nestedText

\* position of a lower-case letter in the alphabet
LetterRank(c) == CHOOSE i \in 1..Len(LowerLetters) : LowerLetters[i] = c

\* a.localeCompare(b) < 0, for keys of lower-case letters
RECURSIVE KeyBefore(_, _)
KeyBefore(a, b) ==
    IF a = <<>> THEN b # <<>>
    ELSE IF b = <<>> THEN FALSE
    ELSE IF Head(a) = Head(b) THEN KeyBefore(Tail(a), Tail(b))
    ELSE LetterRank(Head(a)) < LetterRank(Head(b))

IsKvPreferred(k) == \E i \in 1..Len(KvPreferred) : KvPreferred[i] = k
NotKvPreferred(k) == ~IsKvPreferred(k)

\* the keys of a mapping in the order renderObjectAsKv shows them
SortedKeys(obj) ==
    LET keys == [i \in 1..Len(obj.o) |-> obj.o[i].k]
    IN  SelectSeq(keys, IsKvPreferred)
            \o SortSeq(SelectSeq(keys, NotKvPreferred), KeyBefore)

\* the options renderObjectAsKv passes for key k with value v
ObjectRowOpts(k, v) ==
    [collapsible |-> IsObjectLike(v),
     link |-> /\ \/ Includes(ToLowerCase(k), sUrlLower)
                 \/ Includes(ToLowerCase(k), sLink)
              /\ v.t = "str"]

RECURSIVE renderValue(_, _)
RECURSIVE renderKV(_, _, _)
RECURSIVE renderObjectAsKv(_)

\* the nodes of a value; o holds the options collapsible and link.
\* Arrays, and mappings that are not collapsible, are printed by other
\* branches of the source; no record of the search sessions reaches them.
renderValue(value, o) ==
    CASE IsNullish(value) ->
            <<Element("SPAN", {"badge"}, {}, FALSE, <<TextNode(sNull)>>)>>
      [] value.t = "str" /\ o.link /\ looksLikeUrl(value.s) ->
            <<Element("A", {}, {}, FALSE, <<TextNode(value.s)>>)>>
      [] value.t = "str" /\ ~(o.link /\ looksLikeUrl(value.s)) ->
            TextKids(value.s)
      [] value.t \in {"num", "bool"} -> <<TextNode(JsString(value))>>
      [] value.t = "obj" /\ o.collapsible ->
            <<Element("DIV", {"value-object"}, {"data-value-collapsible"}, FALSE,
                <<Element("BUTTON", {"mini-btn"}, {"data-toggle-value"}, FALSE,
                          <<TextNode(sExpandObject \o NatToStr(Len(value.o))
                                        \o sKeysClose)>>),
                  Element("SPAN", {"object-preview"}, {}, FALSE,
                          <<TextNode(sPreview
                                        \o buildObjectPreview(value, PreviewPairs))>>),
                  Element("DIV", {}, {"data-value-body"}, TRUE,
                          renderObjectAsKv(value))>>)>>

\* '' (no node) or one row: the label in .k, the value in .v
renderKV(key, value, o) ==
    LET v == renderValue(value, o)
    IN  IF v = <<>> THEN <<>>
        ELSE <<Element("DIV", {"kv"}, {}, FALSE,
                  <<Element("DIV", {"k"}, {}, FALSE, TextKids(key)),
                    Element("DIV", {"v"}, {}, FALSE, v)>>)>>

\* one row per key of a mapping
renderObjectAsKv(obj) ==
    IF ~IsMapping(obj) THEN <<>>
    ELSE IF obj.o = <<>>
    THEN <<Element("DIV", {"empty-state"}, {}, FALSE, <<TextNode(sNoKeys)>>)>>
    ELSE LET sorted == SortedKeys(obj)
             RECURSIVE Rows(_)
             Rows(i) ==
                 IF i > Len(sorted) THEN <<>>
                 ELSE renderKV(sorted[i], OwnGet(obj, sorted[i]),
                               ObjectRowOpts(sorted[i], OwnGet(obj, sorted[i])))
                          \o Rows(i + 1)
         IN  Rows(1)

\* one section of a template view
renderCollapsibleCard(title, open, bodyParts) ==
    Element("DIV", {"card"},
            IF open THEN {"data-collapsible", "data-open"} ELSE {"data-collapsible"},
            FALSE,
        <<Element("DIV", {"card-header"}, {}, FALSE,
            <<Element("BUTTON", {"card-header-button"}, {}, FALSE,
                <<Element("H3", {"card-title"}, {}, FALSE, TextKids(title)),
                  Element("DIV", {"card-actions"}, {}, FALSE,
                    <<Element("DIV", {"chevron"}, {"data-chevron"}, FALSE,
                              <<TextNode(IF open THEN <<"v">> ELSE <<">">>)>>)>>)>>)>>),
          Element("DIV", {"card-body"}, {"data-collapsible-body"}, ~open,
                  IF bodyParts # <<>> THEN bodyParts
                  ELSE <<Element("DIV", {"empty-state"}, {}, FALSE,
                                 <<TextNode(sNothingHere)>>)>>)>>)

\* the nodes renderTemplateField returns for the formats text, link and json
TemplateFieldNodes(record, field) ==
    LET row == renderTemplateField(record, field)
        value == getValueAtPath(record, FieldPath(field))
    IN  IF ~row.shown THEN <<>>
        ELSE CASE row.format = sLink ->
                    renderKV(row.label, value, [collapsible |-> FALSE, link |-> TRUE])
               [] row.format = sJson ->
                    renderKV(row.label, value,
                             [collapsible |-> IsObjectLike(value), link |-> FALSE])
               [] row.format \notin {sLink, sJson, sBadge, sDate, sMultiline, sKvlist} ->
                    renderKV(row.label, value,
                             [collapsible |-> FALSE, link |-> FALSE])

RECURSIVE FieldNodes(_, _, _)
FieldNodes(record, fields, j) ==
    IF j > Len(fields) THEN <<>>
    ELSE TemplateFieldNodes(record, fields[j]) \o FieldNodes(record, fields, j + 1)

\* String(sec.section || '').trim() || `Section ${i + 1}`, i counted from 1
SectionTitle(sec, i) ==
    IF Trim(sec.section) # <<>> THEN Trim(sec.section)
    ELSE sSectionNumber \o NatToStr(i)

\* the cards of a template some field of which the record has:
\* the first section open, the others closed
TemplateCards(template, record) ==
    [i \in 1..Len(template.layout) |->
        renderCollapsibleCard(SectionTitle(template.layout[i], i), i = 1,
                              FieldNodes(record, template.layout[i].fields, 1))]

\* els.viewer after innerHTML = renderRecordView(...)
Viewer(kids) == Element("DIV", {"viewer"}, {}, FALSE, kids)

----------------------------------------------------------------------------
(* The search over the rendered view *)

\* node.textContent: the text of every descendant, shown or not
RECURSIVE textContent(_)
textContent(n) ==
    IF n.node = "text" THEN n.text
    ELSE LET RECURSIVE Cat(_)
             Cat(i) == IF i > Len(n.kids) THEN <<>>
                       ELSE textContent(n.kids[i]) \o Cat(i + 1)
         IN  Cat(1)

\* s.indexOf(sub, from): the first position at or after from, -1 for none
IndexOfFrom(s, sub, from) ==
    IF \E i \in from..(Len(s) - Len(sub)) : SubSeq(s, i + 1, i + Len(sub)) = sub
    THEN CHOOSE i \in from..(Len(s) - Len(sub)) :
            /\ SubSeq(s, i + 1, i + Len(sub)) = sub
            /\ \A j \in from..(i - 1) : SubSeq(s, j + 1, j + Len(sub)) # sub
    ELSE -1

blockedTags == {"A", "BUTTON", "INPUT", "SELECT", "TEXTAREA", "PRE", "CODE"}

\* <mark class="jtf-mark">text</mark>
Mark(text) == Element("MARK", {"jtf-mark"}, {}, FALSE, <<TextNode(text)>>)

\* the fragment that replaces a text node: the while loop from position start
RECURSIVE Fragments(_, _, _)
Fragments(text, q, start) ==
    LET i == IndexOfFrom(ToLowerCase(text), ToLowerCase(q), start)
    IN  IF i = -1
        THEN IF start < Len(text)
             THEN <<TextNode(SubSeq(text, start + 1, Len(text)))>> ELSE <<>>
        ELSE (IF i > start THEN <<TextNode(SubSeq(text, start + 1, i))>> ELSE <<>>)
                \o <<Mark(SubSeq(text, i + 1, i + Len(q)))>>
                \o Fragments(text, q, i + Len(q))

\* what the tree walker and the forEach make of one node below el:
\* every text node that is not blank and holds the query is replaced
RECURSIVE HighlightNode(_, _)
HighlightNode(n, q) ==
    IF n.node = "text"
    THEN IF Trim(n.text) = <<>> THEN <<n>>
         ELSE IF IndexOfFrom(ToLowerCase(n.text), ToLowerCase(q), 0) = -1 THEN <<n>>
         ELSE Fragments(n.text, q, 0)
    ELSE LET RECURSIVE Cat(_)
             Cat(i) == IF i > Len(n.kids) THEN <<>>
                       ELSE HighlightNode(n.kids[i], q) \o Cat(i + 1)
         IN  <<[n EXCEPT !.kids = Cat(1)]>>

highlightTextInElement(el, query) ==
    IF Trim(query) = <<>> THEN el
    ELSE IF el.tag \in blockedTags THEN el
    ELSE HighlightNode(el, Trim(query))[1]

IsRow(n) == n.node = "el" /\ "kv" \in n.cls

\* row.querySelector('.k') and row.querySelector('.v'): renderKV puts the
\* label first and the value second
RowLabel(row) == row.kids[1]
RowValue(row) == row.kids[2]

\* labelText.includes(needle) || valueText.includes(needle)
RowHit(row, needle) ==
    \/ Includes(ToLowerCase(textContent(RowLabel(row))), needle)
    \/ Includes(ToLowerCase(textContent(RowValue(row))), needle)

\* the body of rows.forEach for one row that is not skipped
SearchRow(row, q) ==
    IF RowHit(row, ToLowerCase(q))
    THEN [row EXCEPT !.cls = (@ \ {"is-dim"}) \cup {"is-hit"},
                     !.kids = <<highlightTextInElement(RowLabel(row), q),
                                highlightTextInElement(RowValue(row), q)>>]
    ELSE [row EXCEPT !.cls = (@ \ {"is-hit"}) \cup {"is-dim"}]

\* rows.forEach over the rows at and below n, in document order; shown says
\* that no ancestor of n is display:none (isElementVisible adds n itself)
RECURSIVE SearchRows(_, _, _, _)
SearchRows(n, q, includeCollapsed, shown) ==
    IF n.node = "text" THEN n
    ELSE LET visible == shown /\ ~n.hidden
             done == IF IsRow(n) /\ (includeCollapsed \/ visible)
                     THEN SearchRow(n, q) ELSE n
         IN  [done EXCEPT !.kids =
                 [i \in 1..Len(@) |-> SearchRows(@[i], q, includeCollapsed, visible)]]

IsHitRow(n) == IsRow(n) /\ "is-hit" \in n.cls

\* how many .kv.is-hit lie below n
RECURSIVE HitRowsIn(_)
HitRowsIn(n) ==
    IF n.node = "text" THEN 0
    ELSE LET RECURSIVE Sum(_)
             Sum(i) == IF i > Len(n.kids) THEN 0
                       ELSE (IF IsHitRow(n.kids[i]) THEN 1 ELSE 0)
                                + HitRowsIn(n.kids[i]) + Sum(i + 1)
         IN  Sum(1)

\* card.querySelector('[data-collapsible-body="true"]')
CardBody(card) == card.kids[2]

\* only the rows that are children of the card body are counted
SectionHits_ChildrenOnly(card) ==
    Cardinality({i \in 1..Len(CardBody(card).kids) : IsHitRow(CardBody(card).kids[i])})

\* body.querySelectorAll('.kv.is-hit').length
SectionHits(card) == HitRowsIn(CardBody(card))

\* <span class="search-count">n</span>
CountBadge(n) == Element("SPAN", {"search-count"}, {}, FALSE, <<TextNode(NatToStr(n))>>)

IsCollapsibleCard(n) ==
    n.node = "el" /\ "card" \in n.cls /\ "data-collapsible" \in n.attrs

\* the body of the forEach of markSectionsWithHits; the title is the h3 in
\* the header button
MarkCard(card) ==
    IF SectionHits(card) = 0 THEN card
    ELSE [card EXCEPT !.cls = @ \cup {"search-hit"},
                      !.kids[1].kids[1].kids[1].kids =
                          Append(@, CountBadge(SectionHits(card)))]

RECURSIVE markSectionsWithHits(_)
markSectionsWithHits(n) ==
    IF n.node = "text" THEN n
    ELSE LET done == IF IsCollapsibleCard(n) THEN MarkCard(n) ELSE n
         IN  [done EXCEPT !.kids = [i \in 1..Len(@) |-> markSectionsWithHits(@[i])]]

\* applySearchToViewer on the viewer just written by renderViewer, which
\* holds no mark yet (the three clear functions find nothing to remove);
\* state.showRaw is off
applySearchToViewer(viewer, query, includeCollapsed) ==
    IF Trim(query) = <<>> THEN viewer
    ELSE IF includeCollapsed
    THEN markSectionsWithHits(SearchRows(viewer, Trim(query), TRUE, TRUE))
    ELSE SearchRows(viewer, Trim(query), FALSE, TRUE)

----------------------------------------------------------------------------
(* Positions in the tree: the child numbers from the viewer down *)

RECURSIVE PathsOf(_)
PathsOf(n) ==
    IF n.node = "text" THEN {<<>>}
    ELSE {<<>>} \cup UNION {{<<i>> \o p : p \in PathsOf(n.kids[i])} :
                               i \in 1..Len(n.kids)}

RECURSIVE NodeAt(_, _)
NodeAt(n, p) == IF p = <<>> THEN n ELSE NodeAt(n.kids[Head(p)], Tail(p))

RECURSIVE ReplaceAt(_, _, _)
ReplaceAt(n, p, new) ==
    IF p = <<>> THEN new
    ELSE [n EXCEPT !.kids[Head(p)] = ReplaceAt(@, Tail(p), new)]

\* the click listener of a card header
ToggleCard(card) ==
    LET next == "data-open" \notin card.attrs
    IN  [card EXCEPT
            !.attrs = IF next THEN @ \cup {"data-open"} ELSE @ \ {"data-open"},
            !.kids[2].hidden = ~next,
            !.kids[1].kids[1].kids[2].kids[1].kids =
                <<TextNode(IF next THEN <<"v">> ELSE <<">">>)>>]

IsValueWrapper(n) == n.node = "el" /\ "data-value-collapsible" \in n.attrs

sExpand == <<"E", "x", "p", "a", "n", "d">>
sCollapse == <<"C", "o", "l", "l", "a", "p", "s", "e">>

\* the label the button had when the listener was attached: the wrapper is
\* rendered closed, and the listener swaps the two labels ever since
ExpandLabel(wrap) ==
    LET t == textContent(wrap.kids[1])
    IN  IF "data-open" \in wrap.attrs
        THEN sExpand \o SubSeq(t, Len(sCollapse) + 1, Len(t))
        ELSE t

\* expandLabel.replace(/^Expand\b/, 'Collapse')
CollapseLabel(wrap) ==
    sCollapse \o SubSeq(ExpandLabel(wrap), Len(sExpand) + 1, Len(ExpandLabel(wrap)))

\* the click listener of the button of a collapsible value
ToggleValue(wrap) ==
    LET next == "data-open" \notin wrap.attrs
    IN  [wrap EXCEPT
            !.attrs = IF next THEN @ \cup {"data-open"} ELSE @ \ {"data-open"},
            !.kids[3].hidden = ~next,
            !.kids[1].kids =
                <<TextNode(IF next THEN CollapseLabel(wrap) ELSE ExpandLabel(wrap))>>]

----------------------------------------------------------------------------
(* Sessions that search one rendered record: fnIn names the record shown   *)
(* and the template applied to it, fnOut.dom is els.viewer.                 *)

sU == <<"u">>
sN == <<"n">>
sHttpW == <<"h", "t", "t", "p", ":", "/", "/", "w">>

SearchRecordNames == {"nested", "flat", "deep"}

SearchRecordOf(name) ==
    CASE name = "nested" ->
            JObj(<<KV(sA, JStr(sW)), KV(sU, JStr(sHttpW)),
                   KV(sC, JObj(<<KV(sD, JStr(sW)), KV(sA, JStr(sW)),
                                 KV(sB, JStr(sW)), KV(sE, JStr(sZZ))>>)),
                   KV(sB, JStr(sZZ))>>)
      [] name = "flat" ->
            JObj(<<KV(sA, JStr(sZZ)), KV(sB, JStr(sW)), KV(sU, JStr(sW))>>)
      [] name = "deep" ->
            JObj(<<KV(sA, JStr(sW)),
                   KV(sC, JObj(<<KV(sId, JNum(7)),
                                 KV(sN, JObj(<<KV(sUrlLower, JStr(sHttpW))>>)),
                                 KV(sB, JNull)>>)),
                   KV(sB, JStr(sW))>>)

SearchTemplateNames == {"front", "back"}

SearchTemplateOf(name) ==
    CASE name = "front" ->
            [t |-> "obj", templateName |-> <<"f">>, match |-> JUndef,
             layout |-> << [section |-> sSection,
                            fields |-> <<Fld(sA, JUndef), Fld(sU, JStr(sLink)),
                                         Fld(sC, JStr(sJson))>>],
                           [section |-> sBlank,
                            fields |-> <<Fld(sB, JStr(sText))>>] >>]
      [] name = "back" ->
            [t |-> "obj", templateName |-> <<"b">>, match |-> JUndef,
             layout |-> << [section |-> sSection,
                            fields |-> <<Fld(sB, JUndef)>>],
                           [section |-> sSection,
                            fields |-> <<Fld(sA, JUndef), Fld(sC, JStr(sJson)),
                                         Fld(sU, JStr(sLink))>>] >>]

\* what the user types into the search box
SearchQueries == {<<"w">>, <<"Z", "z">>, <<"e", "x">>, <<" ">>, <<"h", "t", "t", "p">>}

\* els.viewer after renderViewer in records mode, the raw toggle off
RenderedViewer(shown, query, includeCollapsed) ==
    applySearchToViewer(
        Viewer(TemplateCards(SearchTemplateOf(shown.template),
                             SearchRecordOf(shown.record))),
        query, includeCollapsed)

InitSearch ==
    /\ PathIdle
    /\ TemplateIdle
    /\ ViewerIdle
    /\ fnIn \in [template : SearchTemplateNames, record : SearchRecordNames]
    /\ fnOut = [op |-> "renderViewer", dom |-> RenderedViewer(fnIn, <<>>, FALSE)]

SearchFrame ==
    UNCHANGED <<pathVars, registryVars, tplVars, files, activeFileId,
                selectedRecordIndexByFileId, viewModeByFileId, datasetUiByFileId,
                showRaw, view, addFilesCalls, templateUploads, consoleWarnings,
                events, fnIn>>

\* the input listener of the search box
TypeQuery ==
    \E q \in SearchQueries :
        /\ searchQuery' = Trim(q)
        /\ fnOut' = [op |-> "renderViewer",
                     dom |-> RenderedViewer(fnIn, Trim(q), includeCollapsedInSearch)]
        /\ UNCHANGED <<includeCollapsedInSearch, els>>
        /\ SearchFrame

\* the change listener of the include-collapsed toggle
FlipIncludeCollapsed ==
    /\ includeCollapsedInSearch' = ~els.includeCollapsedChecked
    /\ els' = [els EXCEPT !.includeCollapsedChecked = ~@]
    /\ fnOut' = [op |-> "renderViewer",
                 dom |-> RenderedViewer(fnIn, searchQuery, ~els.includeCollapsedChecked)]
    /\ UNCHANGED searchQuery
    /\ SearchFrame

\* a click on the header of a card
CardHeaderClick ==
    \E p \in PathsOf(fnOut.dom) :
        /\ IsCollapsibleCard(NodeAt(fnOut.dom, p))
        /\ fnOut' = [op |-> "toggle",
                     dom |-> ReplaceAt(fnOut.dom, p, ToggleCard(NodeAt(fnOut.dom, p)))]
        /\ UNCHANGED <<searchQuery, includeCollapsedInSearch, els>>
        /\ SearchFrame

\* a click on the button of a collapsible value
ValueButtonClick ==
    \E p \in PathsOf(fnOut.dom) :
        /\ IsValueWrapper(NodeAt(fnOut.dom, p))
        /\ fnOut' = [op |-> "toggle",
                     dom |-> ReplaceAt(fnOut.dom, p, ToggleValue(NodeAt(fnOut.dom, p)))]
        /\ UNCHANGED <<searchQuery, includeCollapsedInSearch, els>>
        /\ SearchFrame

NextSearch ==
    \/ TypeQuery
    \/ FlipIncludeCollapsed
    \/ CardHeaderClick
    \/ ValueButtonClick

SpecSearch == InitSearch /\ [][NextSearch]_vars
----------------------------------------------------------------------------
(* Claims about the search (SpecSearch) *)

\* the text of n the user can see: nothing at or below a display:none element
RECURSIVE VisibleText(_)
VisibleText(n) ==
    IF n.node = "text" THEN n.text
    ELSE IF n.hidden THEN <<>>
    ELSE LET RECURSIVE Cat(_)
             Cat(i) == IF i > Len(n.kids) THEN <<>>
                       ELSE VisibleText(n.kids[i]) \o Cat(i + 1)
         IN  Cat(1)

\* the positions of the label/value pairs of the viewer
RowPaths == {p \in PathsOf(fnOut.dom) : IsRow(NodeAt(fnOut.dom, p))}

\* neither the node at p nor any ancestor of it is display:none
ShownAt(p) == \A i \in 0..Len(p) : ~NodeAt(fnOut.dom, SubSeq(p, 1, i)).hidden

\* the query occurs in the text of the label or the value the user can see
SeenToMatch(row) ==
    \/ Includes(ToLowerCase(VisibleText(RowLabel(row))), ToLowerCase(searchQuery))
    \/ Includes(ToLowerCase(VisibleText(RowValue(row))), ToLowerCase(searchQuery))

JustSearched == fnOut.op = "renderViewer"

\* C22: after a search with includeCollapsed off, a pair is marked as a hit
\* only if it is shown and the query occurs in text of it that the user can
\* see, and a pair inside a collapsed section or a collapsed value is
\* neither marked as a hit nor dimmed.
C22_Original ==
    (JustSearched /\ ~includeCollapsedInSearch) =>
        \A p \in RowPaths :
            /\ IsHitRow(NodeAt(fnOut.dom, p)) =>
                    ShownAt(p) /\ SeenToMatch(NodeAt(fnOut.dom, p))
            /\ ~ShownAt(p) =>
                    NodeAt(fnOut.dom, p).cls \cap {"is-hit", "is-dim"} = {}

\* the positions of the collapsible cards of the viewer
CardPaths == {p \in PathsOf(fnOut.dom) : IsCollapsibleCard(NodeAt(fnOut.dom, p))}

\* how many hit pairs lie below n
HitPairsBelow(n) == Cardinality({p \in PathsOf(n) : p # <<>> /\ IsHitRow(NodeAt(n, p))})

\* the count badges below n
BadgesBelow(n) ==
    {p \in PathsOf(n) : /\ NodeAt(n, p).node = "el"
                        /\ "search-count" \in NodeAt(n, p).cls}

C24_Original ==
    JustSearched =>
        \A p \in PathsOf(fnOut.dom) :
            (NodeAt(fnOut.dom, p).node = "el" /\ NodeAt(fnOut.dom, p).tag = "MARK") =>
                \A i \in 0..(Len(p) - 1) :
                    NodeAt(fnOut.dom, SubSeq(p, 1, i)).tag \notin blockedTags

====
